---- MODULE Spec2Model ----
(***************************************************************************)
(* Article ingestion, de-duplication and categorisation pipeline of        *)
(* stocksshorts: GoogleSheetsService (server/google-sheets.ts) and          *)
(* MemStorage (server/storage.ts).  Strings are TLA+ strings; the string    *)
(* methods the code calls (toLowerCase, trim, includes, parseInt) are       *)
(* computed character by character.                                        *)
(***************************************************************************)
EXTENDS Integers, Sequences, FiniteSets, TLC

(***************************************************************************)
(* JavaScript string methods used by the pipeline.                         *)
(***************************************************************************)
CharAt(s, i) == SubSeq(s, i, i)

UpperChars == "ABCDEFGHIJKLMNOPQRSTUVWXYZ"

LowerChars == "abcdefghijklmnopqrstuvwxyz"

\* The upper-case letters, as a set.
UpperSet == {CharAt(UpperChars, i) : i \in 1..Len(UpperChars)}

LowerChar(c) ==
  IF c \in UpperSet
  THEN CharAt(LowerChars, CHOOSE i \in 1..Len(UpperChars) : CharAt(UpperChars, i) = c)
  ELSE c

\* String.prototype.toLowerCase, of the two halves of the string in turn (a
\* text of some hundred characters is lower-cased in a few nested steps).
RECURSIVE toLowerCase(_)
toLowerCase(s) ==
  IF \A i \in 1..Len(s) : CharAt(s, i) \notin UpperSet THEN s
  ELSE IF Len(s) = 1 THEN LowerChar(s)
  ELSE toLowerCase(SubSeq(s, 1, Len(s) \div 2))
         \o toLowerCase(SubSeq(s, Len(s) \div 2 + 1, Len(s)))

IsWhiteSpace(c) == c \in {" ", "\t", "\n", "\r"}

RECURSIVE trimStart(_)
trimStart(s) ==
  IF Len(s) > 0 /\ IsWhiteSpace(CharAt(s, 1)) THEN trimStart(Tail(s)) ELSE s

RECURSIVE trimEnd(_)
trimEnd(s) ==
  IF Len(s) > 0 /\ IsWhiteSpace(CharAt(s, Len(s)))
  THEN trimEnd(SubSeq(s, 1, Len(s) - 1))
  ELSE s

trim(s) == trimEnd(trimStart(s))

\* String.prototype.includes: the empty string is included in every string.
includes(s, sub) ==
  \/ Len(sub) = 0
  \/ \E i \in 1..(Len(s) - Len(sub) + 1) : SubSeq(s, i, i + Len(sub) - 1) = sub

(***************************************************************************)
(* GoogleSheetsService.mapToValidCategory                                  *)
(***************************************************************************)
\* The object literal categoryMap, its entries in insertion order (the order
\* Object.entries walks them in).
categoryMap ==
  << <<"global", "global">>,
     <<"world", "global">>,
     <<"international", "global">>,
     <<"us market", "global">>,
     <<"dow", "global">>,
     <<"nasdaq", "global">>,
     <<"s&p", "global">>,
     <<"nifty", "nifty">>,
     <<"market", "nifty">>,
     <<"markets", "nifty">>,
     <<"index", "nifty">>,
     <<"sensex", "nifty">>,
     <<"banknifty", "nifty">>,
     <<"bank nifty", "nifty">>,
     <<"warrant", "warrant">>,
     <<"warrants", "warrant">>,
     <<"call warrant", "warrant">>,
     <<"put warrant", "warrant">>,
     <<"breakout", "breakout">>,
     <<"breakouts", "breakout">>,
     <<"technical", "breakout">>,
     <<"chart", "breakout">>,
     <<"research report", "research_report">>,
     <<"research_report", "research_report">>,
     <<"researchreport", "research_report">>,
     <<"research", "research_report">>,
     <<"report", "research_report">>,
     <<"analysis", "research_report">>,
     <<"analyst", "research_report">>,
     <<"movers", "movers">>,
     <<"mover", "movers">>,
     <<"most active", "movers">>,
     <<"mostactive", "movers">>,
     <<"gainers", "movers">>,
     <<"losers", "movers">>,
     <<"top gainers", "movers">>,
     <<"top losers", "movers">>,
     <<"orderwins", "order_wins">>,
     <<"order wins", "order_wins">>,
     <<"order_wins", "order_wins">>,
     <<"orderwin", "order_wins">>,
     <<"order win", "order_wins">>,
     <<"wins", "order_wins">>,
     <<"deal", "order_wins">>,
     <<"contract", "order_wins">>,
     <<"ath", "ath">>,
     <<"all time high", "ath">>,
     <<"all-time high", "ath">>,
     <<"record high", "ath">>,
     <<"new high", "ath">>,
     <<"results", "results">>,
     <<"result", "results">>,
     <<"earnings", "results">>,
     <<"quarterly", "results">>,
     <<"q1", "results">>,
     <<"q2", "results">>,
     <<"q3", "results">>,
     <<"q4", "results">>,
     <<"ipo", "ipo">>,
     <<"ipos", "ipo">>,
     <<"initial public offering", "ipo">>,
     <<"public offering", "ipo">>,
     <<"listing", "ipo">>,
     <<"sme ipo", "sme ipo">>,
     <<"smeipo", "sme ipo">>,
     <<"sme", "sme ipo">>,
     <<"small medium enterprises", "sme ipo">>,
     <<"mcx", "others">>,
     <<"commodity", "others">>,
     <<"commodities", "others">>,
     <<"gold", "others">>,
     <<"silver", "others">>,
     <<"crude", "others">>,
     <<"oil", "others">>,
     <<"others", "others">>,
     <<"other", "others">>,
     <<"general", "others">>,
     <<"news", "others">>,
     <<"policy", "others">>,
     <<"rbi", "others">>,
     <<"government", "others">> >>

\* categoryMap is a plain object literal, so a property read that finds no own
\* property goes on to Object.prototype.  These are the members found there;
\* every one of them is a function or an object, hence truthy.
ObjectPrototypeKeys ==
  {"constructor", "__proto__", "hasOwnProperty", "isPrototypeOf",
   "propertyIsEnumerable", "toLocaleString", "toString", "valueOf",
   "__defineGetter__", "__defineSetter__", "__lookupGetter__",
   "__lookupSetter__"}

\* The value such a member has, named by the member (it is not a string).
InheritedMember(key) == "Object.prototype." \o key

undefined == "undefined"

\* categoryMap[rawCategory]
categoryMapGet(rawCategory) ==
  IF \E i \in 1..Len(categoryMap) : categoryMap[i][1] = rawCategory
  THEN categoryMap[CHOOSE i \in 1..Len(categoryMap) : categoryMap[i][1] = rawCategory][2]
  ELSE IF rawCategory \in ObjectPrototypeKeys
       THEN InheritedMember(rawCategory)
       ELSE undefined

\* The for..of loop over Object.entries(categoryMap): the first entry whose
\* key contains rawCategory or is contained in it.
PartialMatches(rawCategory) ==
  {i \in 1..Len(categoryMap) :
     includes(rawCategory, categoryMap[i][1]) \/ includes(categoryMap[i][1], rawCategory)}

Min(S) == CHOOSE m \in S : \A n \in S : m <= n

mapToValidCategory(rawCategory) ==
  IF categoryMapGet(rawCategory) # undefined
  THEN categoryMapGet(rawCategory)
  ELSE IF PartialMatches(rawCategory) # {}
       THEN categoryMap[Min(PartialMatches(rawCategory))][2]
       ELSE "others"

\* fetchArticles, lines 55-56: the label is lower-cased and trimmed, then mapped.
\* normalize without the lower-casing and the trimming.
normalizeAsWritten(label) == mapToValidCategory(label)

normalize(label) == mapToValidCategory(trim(toLowerCase(label)))

(***************************************************************************)
(* Values of the JavaScript run time.                                      *)
(***************************************************************************)
\* null, as distinct from every string a cell can hold.
null == "\\null"

\* JavaScript truthiness of a string-or-null-or-undefined value.
Truthy(v) == v \notin {"", null, undefined}

\* typeof v === 'string', for the values a category can take.
IsString(v) == \A key \in ObjectPrototypeKeys : v # InheritedMember(key)

DigitChars == "0123456789"

IsDigit(c) == \E i \in 1..Len(DigitChars) : CharAt(DigitChars, i) = c

DigitValue(c) == (CHOOSE i \in 1..Len(DigitChars) : CharAt(DigitChars, i) = c) - 1

\* The longest prefix of s made of decimal digits.
RECURSIVE DigitPrefix(_)
DigitPrefix(s) ==
  IF Len(s) > 0 /\ IsDigit(CharAt(s, 1))
  THEN CharAt(s, 1) \o DigitPrefix(Tail(s))
  ELSE ""

RECURSIVE DecimalValue(_)
DecimalValue(d) ==
  IF Len(d) = 0 THEN 0
  ELSE 10 * DecimalValue(SubSeq(d, 1, Len(d) - 1)) + DigitValue(CharAt(d, Len(d)))

\* parseInt(s) with no radix, for decimal input: leading white space is
\* skipped, one sign is read, then digits up to the first other character;
\* NaN when there is no digit.
parseInt(s) ==
  LET t    == trimStart(s)
      neg  == Len(t) > 0 /\ CharAt(t, 1) = "-"
      u    == IF Len(t) > 0 /\ CharAt(t, 1) \in {"-", "+"} THEN Tail(t) ELSE t
      d    == DigitPrefix(u)
  IN  [nan |-> Len(d) = 0,
       value |-> IF neg THEN 0 - DecimalValue(d) ELSE DecimalValue(d)]

(***************************************************************************)
(* GoogleSheetsService.generateUniqueContent                               *)
(***************************************************************************)
contentTemplates_nifty(title, category) ==
  << title \o " reflects the current market sentiment with significant trading activity. The index movement indicates strong investor confidence amid favorable market conditions.",
     "Market analysts are closely watching " \o title \o " as it impacts broader market trends. Technical indicators suggest continued momentum in the " \o category \o " segment.",
     title \o " represents a key development in the equity markets. Institutional investors are showing increased interest in this market segment." >>

contentTemplates_trending(title, category) ==
  << title \o " has caught the attention of market participants today. This development could influence sector-wide performance and investor sentiment.",
     "Breaking: " \o title \o " is making headlines across financial markets. Expert analysis suggests this could be a significant market catalyst.",
     title \o " emerges as a key market story with potential long-term implications for investors and traders." >>

contentTemplates_breakout(title, category) ==
  << title \o " represents a significant breakout pattern in technical analysis. Chart patterns indicate potential for continued upward momentum.",
     "Technical breakout alert: " \o title \o " has crossed key resistance levels. Volume analysis supports the sustainability of this move.",
     title \o " shows strong breakout characteristics with robust trading volumes. This could signal the beginning of a new trend." >>

contentTemplates_research_report(title, category) ==
  << "Latest research report highlights: " \o title \o ". Detailed fundamental analysis reveals key investment insights and recommendations.",
     title \o " - Comprehensive research analysis covering financial metrics, growth prospects, and market positioning.",
     "Research update: " \o title \o " provides in-depth sector analysis and stock-specific recommendations for informed investment decisions." >>

contentTemplates_default(title, category) ==
  << title \o " represents an important development in the financial markets. Market dynamics and investor sentiment continue to evolve.",
     title \o " captures current market attention with significant implications for sector performance and trading strategies.",
     "Latest update: " \o title \o " reflects ongoing market trends and provides insights into current investment opportunities." >>

marketInsights ==
  << "Trading volumes remain robust with sustained institutional interest.",
     "Market volatility presents both opportunities and challenges for investors.",
     "Sectoral rotation continues as investors seek value across different segments.",
     "Risk-on sentiment prevails amid favorable macroeconomic conditions.",
     "Technical charts indicate potential for further momentum in this direction." >>


\* contentTemplates[category] || contentTemplates.default
contentTemplates(title, category) ==
  CASE category = "nifty"           -> contentTemplates_nifty(title, category)
    [] category = "trending"        -> contentTemplates_trending(title, category)
    [] category = "breakout"        -> contentTemplates_breakout(title, category)
    [] category = "research_report" -> contentTemplates_research_report(title, category)
    [] OTHER                        -> contentTemplates_default(title, category)

\* let stockDetails = '' ... (google-sheets.ts)
sheetsStockDetails(stockSymbol, stockPrice, priceChange) ==
  IF Truthy(stockSymbol) /\ Truthy(stockPrice)
  THEN " " \o stockSymbol \o " is currently trading at " \o stockPrice
       \o (IF Truthy(priceChange) THEN " with a movement of " \o priceChange ELSE "")
       \o " in the current trading session."
  ELSE ""

generateUniqueContent(title, category, stockSymbol, stockPrice, priceChange, articleIndex) ==
  LET templates   == contentTemplates(title, category)
      baseContent == templates[(articleIndex % Len(templates)) + 1]
      insight     == marketInsights[(articleIndex % Len(marketInsights)) + 1]
  IN  baseContent \o " " \o insight
      \o sheetsStockDetails(stockSymbol, stockPrice, priceChange)
      \o " Market participants continue to monitor these developments for strategic positioning."

(***************************************************************************)
(* MemStorage.generateUniqueArticleContent                                 *)
(***************************************************************************)
contentVariations(title, category) ==
  << title \o " - Market analysis reveals significant developments in the " \o category \o " sector. ",
     "Breaking: " \o title \o " has emerged as a key market story today. ",
     title \o " represents important movements in current market dynamics. ",
     "Latest update on " \o title \o " shows evolving trends in the " \o category \o " space. ",
     title \o " captures investor attention with notable market implications. " >>

additionalInsights ==
  << "Technical indicators suggest continued momentum with strong volume support.",
     "Fundamental analysis reveals robust growth prospects and market positioning.",
     "Institutional activity indicates sustained interest from major market participants.",
     "Sector rotation patterns highlight potential opportunities for strategic investors.",
     "Market sentiment remains positive with favorable risk-reward dynamics." >>

\* let stockDetails = '' ... (storage.ts)
storageStockDetails(stockSymbol, stockPrice, priceChange) ==
  IF Truthy(stockSymbol) /\ Truthy(stockPrice)
  THEN " " \o stockSymbol \o " is currently trading at " \o stockPrice
       \o (IF Truthy(priceChange) THEN " showing " \o priceChange \o " movement" ELSE "")
       \o " in the current session."
  ELSE ""

generateUniqueArticleContent(title, category, stockSymbol, stockPrice, priceChange, index) ==
  LET baseContent == contentVariations(title, category)[(index % Len(contentVariations(title, category))) + 1]
      insight     == additionalInsights[(index % Len(additionalInsights)) + 1]
  IN  baseContent \o insight
      \o storageStockDetails(stockSymbol, stockPrice, priceChange)
      \o " Traders and investors are monitoring these developments for potential market opportunities."

(***************************************************************************)
(* GoogleSheetsService.fetchArticles: the filter and the map over the rows *)
(* of the response.  A row is the sequence of its cells; the cells the     *)
(* response leaves out read as undefined, which every use below treats     *)
(* like the empty string.                                                  *)
(***************************************************************************)
(***************************************************************************)
(* getArticleImage                                                         *)
(***************************************************************************)
\* The characters of code 32 to 95 and those of code 97 to 126, in the order
\* of their codes (the grave accent, of code 96, cannot stand in a string
\* here; no text of the model holds it).
AsciiTo95 ==
  " !\"#$%&'()*+,-./0123456789:;<=>?@ABCDEFGHIJKLMNOPQRSTUVWXYZ[\\]^_"

AsciiFrom97 == "abcdefghijklmnopqrstuvwxyz{|}~"

\* String.prototype.charCodeAt(0) of a one-character string.
charCodeAt ==
  [c \in {CharAt(AsciiTo95, i) : i \in 1..Len(AsciiTo95)}
           \cup {CharAt(AsciiFrom97, i) : i \in 1..Len(AsciiFrom97)}
           \cup {"\t", "\n", "\r"} |->
     CASE c = "\t" -> 9
       [] c = "\n" -> 10
       [] c = "\r" -> 13
       [] \E i \in 1..Len(AsciiTo95) : CharAt(AsciiTo95, i) = c ->
            31 + CHOOSE i \in 1..Len(AsciiTo95) : CharAt(AsciiTo95, i) = c
       [] OTHER ->
            96 + CHOOSE i \in 1..Len(AsciiFrom97) : CharAt(AsciiFrom97, i) = c]

\* ((a << 5) - a) + code, then a & a: 31 * a + code brought into the range of
\* a signed 32-bit integer.  a is taken apart into a high and a low half of
\* 16 bits so that no product leaves that range on the way.
hashStep(a, code) ==
  LET lo    == a % 65536
      hi    == a \div 65536
      t     == 31 * lo + code
      hi2   == 31 * hi + (t \div 65536)
      hiInt == ((hi2 + 32768) % 65536) - 32768
  IN  hiInt * 65536 + (t % 65536)

\* (text).split('').reduce(..., a) over the characters first to last of the
\* text: the first half of them is reduced, then the second half from the
\* value the first left (the test on that value has it computed before the
\* second half is entered; it is an integer always).
RECURSIVE reduceHash(_, _, _, _)
reduceHash(text, first, last, a) ==
  IF first > last THEN a
  ELSE IF first = last THEN hashStep(a, charCodeAt[CharAt(text, first)])
  ELSE LET middle  == (first + last) \div 2
           reduced == reduceHash(text, first, middle, a)
       IN  IF reduced \in Int
           THEN reduceHash(text, middle + 1, last, reduced)
           ELSE reduced

\* Math.abs(contentHash + articleId) % length, computed without forming a
\* sum outside the 32-bit range.
absSumMod(contentHash, articleId, length) ==
  IF contentHash >= 0 /\ articleId >= 0
  THEN ((contentHash % length) + (articleId % length)) % length
  ELSE IF contentHash < 0 /\ articleId < 0
  THEN (((-(contentHash + 1)) % length) + 1 + ((-articleId) % length)) % length
  ELSE LET sum == contentHash + articleId
       IN  (IF sum < 0 THEN -sum ELSE sum) % length

\* diverseImagePools
diverseImagePools ==
  [ market |->
     << "https://images.pexels.com/photos/6801648/pexels-photo-6801648.jpeg?auto=compress&cs=tinysrgb&w=600&h=400",
        "https://images.pexels.com/photos/3184358/pexels-photo-3184358.jpeg?auto=compress&cs=tinysrgb&w=600&h=400",
        "https://images.pexels.com/photos/590041/pexels-photo-590041.jpeg?auto=compress&cs=tinysrgb&w=600&h=400",
        "https://images.pexels.com/photos/6802042/pexels-photo-6802042.jpeg?auto=compress&cs=tinysrgb&w=600&h=400",
        "https://images.pexels.com/photos/4386464/pexels-photo-4386464.jpeg?auto=compress&cs=tinysrgb&w=600&h=400" >>,
   banking |->
     << "https://images.pexels.com/photos/259200/pexels-photo-259200.jpeg?auto=compress&cs=tinysrgb&w=600&h=400",
        "https://images.pexels.com/photos/4386476/pexels-photo-4386476.jpeg?auto=compress&cs=tinysrgb&w=600&h=400",
        "https://images.pexels.com/photos/259027/pexels-photo-259027.jpeg?auto=compress&cs=tinysrgb&w=600&h=400",
        "https://images.pexels.com/photos/6289065/pexels-photo-6289065.jpeg?auto=compress&cs=tinysrgb&w=600&h=400",
        "https://images.pexels.com/photos/4386433/pexels-photo-4386433.jpeg?auto=compress&cs=tinysrgb&w=600&h=400" >>,
   technology |->
     << "https://images.pexels.com/photos/3861969/pexels-photo-3861969.jpeg?auto=compress&cs=tinysrgb&w=600&h=400",
        "https://images.pexels.com/photos/3184306/pexels-photo-3184306.jpeg?auto=compress&cs=tinysrgb&w=600&h=400",
        "https://images.pexels.com/photos/3184633/pexels-photo-3184633.jpeg?auto=compress&cs=tinysrgb&w=600&h=400",
        "https://images.pexels.com/photos/4164418/pexels-photo-4164418.jpeg?auto=compress&cs=tinysrgb&w=600&h=400",
        "https://images.pexels.com/photos/4348401/pexels-photo-4348401.jpeg?auto=compress&cs=tinysrgb&w=600&h=400" >>,
   automotive |->
     << "https://images.pexels.com/photos/3802510/pexels-photo-3802510.jpeg?auto=compress&cs=tinysrgb&w=600&h=400",
        "https://images.pexels.com/photos/170811/pexels-photo-170811.jpeg?auto=compress&cs=tinysrgb&w=600&h=400",
        "https://images.pexels.com/photos/1007410/pexels-photo-1007410.jpeg?auto=compress&cs=tinysrgb&w=600&h=400",
        "https://images.pexels.com/photos/1149137/pexels-photo-1149137.jpeg?auto=compress&cs=tinysrgb&w=600&h=400",
        "https://images.pexels.com/photos/2079246/pexels-photo-2079246.jpeg?auto=compress&cs=tinysrgb&w=600&h=400" >>,
   energy |->
     << "https://images.pexels.com/photos/2800832/pexels-photo-2800832.jpeg?auto=compress&cs=tinysrgb&w=600&h=400",
        "https://images.pexels.com/photos/356036/pexels-photo-356036.jpeg?auto=compress&cs=tinysrgb&w=600&h=400",
        "https://images.pexels.com/photos/433308/pexels-photo-433308.jpeg?auto=compress&cs=tinysrgb&w=600&h=400",
        "https://images.pexels.com/photos/2800830/pexels-photo-2800830.jpeg?auto=compress&cs=tinysrgb&w=600&h=400",
        "https://images.pexels.com/photos/415974/pexels-photo-415974.jpeg?auto=compress&cs=tinysrgb&w=600&h=400" >>,
   healthcare |->
     << "https://images.pexels.com/photos/3683074/pexels-photo-3683074.jpeg?auto=compress&cs=tinysrgb&w=600&h=400",
        "https://images.pexels.com/photos/4033148/pexels-photo-4033148.jpeg?auto=compress&cs=tinysrgb&w=600&h=400",
        "https://images.pexels.com/photos/3825368/pexels-photo-3825368.jpeg?auto=compress&cs=tinysrgb&w=600&h=400",
        "https://images.pexels.com/photos/4167541/pexels-photo-4167541.jpeg?auto=compress&cs=tinysrgb&w=600&h=400",
        "https://images.pexels.com/photos/4386466/pexels-photo-4386466.jpeg?auto=compress&cs=tinysrgb&w=600&h=400" >>,
   retail |->
     << "https://images.pexels.com/photos/264636/pexels-photo-264636.jpeg?auto=compress&cs=tinysrgb&w=600&h=400",
        "https://images.pexels.com/photos/230544/pexels-photo-230544.jpeg?auto=compress&cs=tinysrgb&w=600&h=400",
        "https://images.pexels.com/photos/1005638/pexels-photo-1005638.jpeg?auto=compress&cs=tinysrgb&w=600&h=400",
        "https://images.pexels.com/photos/811101/pexels-photo-811101.jpeg?auto=compress&cs=tinysrgb&w=600&h=400",
        "https://images.pexels.com/photos/2292953/pexels-photo-2292953.jpeg?auto=compress&cs=tinysrgb&w=600&h=400" >>,
   fintech |->
     << "https://images.pexels.com/photos/919734/pexels-photo-919734.jpeg?auto=compress&cs=tinysrgb&w=600&h=400",
        "https://images.pexels.com/photos/3184360/pexels-photo-3184360.jpeg?auto=compress&cs=tinysrgb&w=600&h=400",
        "https://images.pexels.com/photos/4386467/pexels-photo-4386467.jpeg?auto=compress&cs=tinysrgb&w=600&h=400",
        "https://images.pexels.com/photos/6289025/pexels-photo-6289025.jpeg?auto=compress&cs=tinysrgb&w=600&h=400",
        "https://images.pexels.com/photos/4164418/pexels-photo-4164418.jpeg?auto=compress&cs=tinysrgb&w=600&h=400" >>,
   trading |->
     << "https://images.pexels.com/photos/590041/pexels-photo-590041.jpeg?auto=compress&cs=tinysrgb&w=600&h=400",
        "https://images.pexels.com/photos/7567438/pexels-photo-7567438.jpeg?auto=compress&cs=tinysrgb&w=600&h=400",
        "https://images.pexels.com/photos/590016/pexels-photo-590016.jpeg?auto=compress&cs=tinysrgb&w=600&h=400",
        "https://images.pexels.com/photos/6802042/pexels-photo-6802042.jpeg?auto=compress&cs=tinysrgb&w=600&h=400",
        "https://images.pexels.com/photos/3184320/pexels-photo-3184320.jpeg?auto=compress&cs=tinysrgb&w=600&h=400" >> ]

\* The keyword tests of getArticleImage in the order it makes them: the pool
\* of each test and the words any of which passes it.
keywordTests ==
  << [pool |-> "market",
      words |-> {"nifty", "sensex", "index", "market"}],
     [pool |-> "banking",
      words |-> {"bank", "hdfc", "sbi", "icici", "kotak", "axis"}],
     [pool |-> "technology",
      words |-> {"tcs", "infosys", "wipro", "tech", "software", "it ", "digital"}],
     [pool |-> "automotive",
      words |-> {"maruti", "tata motors", "mahindra", "bajaj auto", "auto", "car", "vehicle"}],
     [pool |-> "energy",
      words |-> {"ntpc", "ongc", "coal", "power", "energy", "oil", "gas"}],
     [pool |-> "healthcare",
      words |-> {"pharma", "drug", "medicine", "health", "cipla", "sun pharma"}],
     [pool |-> "retail",
      words |-> {"dmart", "retail", "consumer", "fmcg", "goods", "store"}],
     [pool |-> "fintech",
      words |-> {"paytm", "payment", "fintech", "wallet", "upi", "digital payment"}] >>

\* The pool getArticleImage selects from, the keyword tests before the k-th
\* having failed: that of the first keyword test the text passes, or else
\* the pool its switch gives the category.
RECURSIVE poolFrom(_, _, _)
poolFrom(k, fullText, category) ==
  IF k > Len(keywordTests)
  THEN IF category \in {"breakout", "warrant", "movers"} THEN "trading" ELSE "market"
  ELSE IF \E word \in keywordTests[k].words : includes(fullText, word)
  THEN keywordTests[k].pool
  ELSE poolFrom(k + 1, fullText, category)

poolOf(fullText, category) == poolFrom(1, fullText, category)

\* selectUniqueImage (pool[index], index counted from 0)
selectUniqueImage(pool, contentHash, articleId) ==
  pool[absSumMod(contentHash, articleId, Len(pool)) + 1]

\* v || ''
OrEmpty(v) == IF Truthy(v) THEN v ELSE ""

\* getArticleImage with the stock price among what it hashes.
getArticleImageHashingPrice(article) ==
  LET title       == toLowerCase(OrEmpty(article.title))
      content     == toLowerCase(OrEmpty(article.content))
      category    == toLowerCase(OrEmpty(article.category))
      stockSymbol == toLowerCase(OrEmpty(article.stockSymbol))
      articleId   == IF "id" \in DOMAIN article /\ article.id # 0
                     THEN article.id ELSE 1
      hashed      == title \o content \o stockSymbol \o OrEmpty(article.stockPrice)
      contentHash == reduceHash(hashed, 1, Len(hashed), 0)
      fullText    == title \o " " \o content
  IN  selectUniqueImage(diverseImagePools[poolOf(fullText, category)],
                        contentHash, articleId)

\* getArticleImage, for an article whose category is a string.  The id is
\* a number where the article has one.
getArticleImage(article) ==
  LET title       == toLowerCase(OrEmpty(article.title))
      content     == toLowerCase(OrEmpty(article.content))
      category    == toLowerCase(OrEmpty(article.category))
      stockSymbol == toLowerCase(OrEmpty(article.stockSymbol))
      articleId   == IF "id" \in DOMAIN article /\ article.id # 0
                     THEN article.id ELSE 1
      hashed      == title \o content \o stockSymbol
      contentHash == reduceHash(hashed, 1, Len(hashed), 0)
      fullText    == title \o " " \o content
  IN  selectUniqueImage(diverseImagePools[poolOf(fullText, category)],
                        contentHash, articleId)

\* row[i] || '' (i counted from 0 as in the code)
Cell(row, i) == IF i + 1 <= Len(row) THEN row[i + 1] ELSE ""

\* v || null
OrNull(v) == IF Truthy(v) THEN v ELSE null

\* .filter(row => row.length >= 3 && row[0] && row[1])
RowAccepted(row) == Len(row) >= 3 /\ Truthy(Cell(row, 0)) /\ Truthy(Cell(row, 1))

\* isGenericContent without its test for blank content.
isGenericContentUnlessBlank(content) ==
  \/ includes(content, "Domestic indices extended gains")
  \/ includes(content, "Technical analysts highlight")

isGenericContent(content) ==
  \/ includes(content, "Domestic indices extended gains")
  \/ includes(content, "Technical analysts highlight")
  \/ trim(content) = ""

\* getArticleImage begins with (article.category || '').toLowerCase(), which
\* throws a TypeError when the category is a truthy value that is no string.
getArticleImageThrows(article) == ~IsString(article.category)

\* The body of .map((row, index) => ...), up to the image selection: the
\* object articleData with its imageUrl "".
\* exchange, timeAgo, source, sentiment and priceTarget are copied cells
\* that nothing below reads; they are left out of the record.
articleData(row, index, date) ==
  LET rawCategory == trim(toLowerCase(Cell(row, 3)))
      category    == mapToValidCategory(rawCategory)
      title       == IF Truthy(Cell(row, 1)) THEN Cell(row, 1) ELSE "Untitled"
      content     == IF isGenericContent(Cell(row, 2))
                     THEN generateUniqueContent(title, category, Cell(row, 4),
                                                Cell(row, 5), Cell(row, 6), index)
                     ELSE Cell(row, 2)
      parsed      == parseInt(Cell(row, 0))
      data        ==
        [id          |-> IF ~parsed.nan /\ parsed.value # 0 THEN parsed.value ELSE index + 1,
         title       |-> title,
         content     |-> content,
         category    |-> category,
         stockSymbol |-> OrNull(Cell(row, 4)),
         stockPrice  |-> OrNull(Cell(row, 5)),
         priceChange |-> OrNull(Cell(row, 6)),
         isPremium   |-> toLowerCase(Cell(row, 10)) = "true",
         createdAt   |-> date,
         imageUrl    |-> ""]
  IN  data

\* The value fetchArticles resolves to.  rows is the response of the
\* spreadsheet API, or apiError when the request rejected.  Whatever is
\* thrown inside the try block, by the request or by the mapping of a row,
\* is caught and turned into the empty array.
apiError == <<"\\error">>

fetchArticles(rows, date) ==
  IF rows = apiError THEN <<>>
  ELSE LET kept   == SelectSeq(rows, RowAccepted)
           mapped == [i \in 1..Len(kept) |-> articleData(kept[i], i - 1, date)]
       IN  IF \E i \in 1..Len(kept) : getArticleImageThrows(mapped[i])
           THEN <<>>
           ELSE [i \in 1..Len(kept) |->
                   LET data == articleData(kept[i], i - 1, date)
                   IN  [data EXCEPT !.imageUrl = getArticleImage(data)]]

(***************************************************************************)
(* The Map of articles, as the sequence of its values in insertion order.  *)
(***************************************************************************)
MapHas(m, id) == \E i \in 1..Len(m) : m[i].id = id

MapGet(m, id) == m[CHOOSE i \in 1..Len(m) : m[i].id = id]

\* Map.prototype.set: a key that is present keeps its place.
MapSet(m, article) ==
  IF MapHas(m, article.id)
  THEN [i \in 1..Len(m) |-> IF m[i].id = article.id THEN article ELSE m[i]]
  ELSE Append(m, article)

MapKeys(m) == {m[i].id : i \in 1..Len(m)}

\* article.viewCount || 0: articles made by createArticle have no viewCount.
ViewCountOf(article) ==
  IF "viewCount" \in DOMAIN article THEN article.viewCount ELSE 0

(***************************************************************************)
(* MemStorage.syncFromGoogleSheets: one pass of the forEach callback.      *)
(***************************************************************************)
\* isDuplicateContent of the row at index (from 0) of the array sheetsArticles,
\* whose earlier elements have been through the callback already.
\* isDuplicateContent with otherIndex <= index: an article is compared with
\* itself too.
isDuplicateContentOrSelf(sheetsArticles, index) ==
  \E otherIndex \in 0..index :
     /\ sheetsArticles[otherIndex + 1].content = sheetsArticles[index + 1].content
     /\ trim(sheetsArticles[index + 1].content) # ""

isDuplicateContent(sheetsArticles, index) ==
  /\ index > 0
  /\ \E otherIndex \in 0..(index - 1) :
        /\ sheetsArticles[otherIndex + 1].content = sheetsArticles[index + 1].content
        /\ trim(sheetsArticles[index + 1].content) # ""

\* The article after the callback has rewritten its content and set its
\* view count, given the Map as it is when the callback runs.
syncedArticle(map, sheetsArticles, index) ==
  LET article == sheetsArticles[index + 1]
      content == IF \/ ~Truthy(article.content)
                    \/ trim(article.content) = ""
                    \/ isDuplicateContent(sheetsArticles, index)
                 THEN generateUniqueArticleContent(article.title, article.category,
                        article.stockSymbol, article.stockPrice, article.priceChange, index)
                 ELSE article.content
      viewCount == IF MapHas(map, article.id)
                   THEN ViewCountOf(MapGet(map, article.id))
                   ELSE 0
  IN  ("viewCount" :> viewCount) @@ [article EXCEPT !.content = content]

(***************************************************************************)
(* The sample data of MemStorage.initializeData and addTestArticle.  Of    *)
(* each body text the first sentence is kept; the rupee sign is written    *)
(* Rs.                                                                     *)
(***************************************************************************)
directArticles ==
  << [title |-> "Nifty Hits Record High of 23,500 Points",
      content |-> "The Nifty 50 index surged to a new all-time high of 23,500 points today, driven by strong buying in banking and IT stocks.",
      category |-> "market", stockSymbol |-> "NIFTY", stockPrice |-> "23,500", priceChange |-> "+1.8%"],
     [title |-> "HDFC Bank Call Warrants Show Strong Activity - Analysis",
      content |-> "HDFC Bank call warrants are showing unprecedented activity with volumes up 340% today.",
      category |-> "warrant", stockSymbol |-> "HDFCBANK", stockPrice |-> "1,845.30", priceChange |-> "+2.8%"],
     [title |-> "Technical Breakout: Small-Cap Pharma Stock Ready for 40% Rally",
      content |-> "Our technical analysis has identified a small-cap pharmaceutical stock showing classic breakout patterns with volume confirmation.",
      category |-> "breakout", stockSymbol |-> "SMALLPHARMA", stockPrice |-> "188.45", priceChange |-> "+7.2%"],
     [title |-> "Tech Mahindra Beats Q3 Estimates, Shares Jump 8%",
      content |-> "Tech Mahindra reported strong Q3 results with revenue growth of 12% YoY, beating analyst estimates.",
      category |-> "technology", stockSymbol |-> "TECHM", stockPrice |-> "1,245.80", priceChange |-> "+8.2%"] >>

sampleArticles ==
  << [title |-> "Nifty Hits 23,500 for First Time",
      content |-> "The Nifty 50 surged to a new all-time high of 23,500, driven by gains in banking and IT stocks.",
      category |-> "nifty", stockSymbol |-> "NIFTY 50", stockPrice |-> "23,500", priceChange |-> "+1.2%"],
     [title |-> "Bank Nifty Outperforms, Gains 1.8%",
      content |-> "Bank Nifty climbed nearly 2% today, led by HDFC Bank and Kotak Mahindra.",
      category |-> "nifty", stockSymbol |-> "BANK NIFTY", stockPrice |-> "51,234", priceChange |-> "+1.8%"],
     [title |-> "Nifty Volatility Drops Below 11",
      content |-> "India VIX fell below 11, indicating calm in the market.",
      category |-> "nifty", stockSymbol |-> "INDIA VIX", stockPrice |-> "10.8", priceChange |-> "-8.4%"],
     [title |-> "IT Stocks Lift Nifty After Weak Start",
      content |-> "Infosys, TCS led a strong recovery in the Nifty index after a weak opening.",
      category |-> "nifty", stockSymbol |-> "NIFTY IT", stockPrice |-> "34,567", priceChange |-> "+2.1%"],
     [title |-> "Nifty Midcap Index Hits Record High",
      content |-> "Midcap stocks rallied as the Nifty Midcap 100 index touched a new peak.",
      category |-> "nifty", stockSymbol |-> "NIFTY MIDCAP", stockPrice |-> "38,925", priceChange |-> "+1.8%"],
     [title |-> "Zomato Jumps 7% on Blinkit Expansion",
      content |-> "Zomato surged 7% after reports of Blinkit expanding into Tier-2 cities.",
      category |-> "movers", stockSymbol |-> "ZOMATO", stockPrice |-> "Rs 186.50", priceChange |-> "+7.0%"],
     [title |-> "Tata Motors Up 6%, Hits 52-Week High",
      content |-> "Tata Motors rallied after strong monthly EV sales data and JLR export guidance.",
      category |-> "movers", stockSymbol |-> "TATA MOTORS", stockPrice |-> "Rs 1,068.75", priceChange |-> "+6.0%"],
     [title |-> "Adani Green Soars 8% on Fundraising Buzz",
      content |-> "Adani Green gained sharply amid reports of a large institutional fundraise to expand solar projects.",
      category |-> "movers", stockSymbol |-> "ADANIGREEN", stockPrice |-> "Rs 1,334.80", priceChange |-> "+8.0%"],
     [title |-> "IRCTC Gains 5% on Rail Connectivity Boost",
      content |-> "IRCTC stock jumped after the Railway Ministry announced new premium trains between major cities.",
      category |-> "movers", stockSymbol |-> "IRCTC", stockPrice |-> "Rs 845.60", priceChange |-> "+5.0%"],
     [title |-> "JSW Steel Slides 4% After Weak US Demand",
      content |-> "JSW Steel fell following reports of lower steel exports to the US.",
      category |-> "movers", stockSymbol |-> "JSW STEEL", stockPrice |-> "Rs 912.40", priceChange |-> "-4.0%"],
     [title |-> "Bharat Forge Breaks Out of 3-Year Range",
      content |-> "Bharat Forge surged above Rs 1,400 resistance with high volume, signaling a long-term breakout.",
      category |-> "breakout", stockSymbol |-> "BHARATFORG", stockPrice |-> "Rs 1,423.60", priceChange |-> "+8.5%"],
     [title |-> "Delta Corp Hits Upper Circuit on Casino News",
      content |-> "Delta Corp jumped 10% as Goa approved extended casino licenses with breakout seen above Rs 160.",
      category |-> "breakout", stockSymbol |-> "DELTAGROUP", stockPrice |-> "Rs 176.80", priceChange |-> "+10.0%"],
     [title |-> "MapMyIndia Zooms 12% on EV Mapping Deal",
      content |-> "MapMyIndia hit a breakout after signing partnership with EV makers for in-car navigation systems.",
      category |-> "breakout", stockSymbol |-> "MAPMYINDIA", stockPrice |-> "Rs 1,756.80", priceChange |-> "+12.0%"],
     [title |-> "Mazagon Dock Launches From Rs 2,400 Base",
      content |-> "After weeks of consolidation, Mazagon Dock rallied strongly with technical charts signaling fresh uptrend.",
      category |-> "breakout", stockSymbol |-> "MAZAGON", stockPrice |-> "Rs 2,567.30", priceChange |-> "+7.2%"],
     [title |-> "L&T Tech Services Sees Bullish Breakout",
      content |-> "L&T Tech Services moved above Rs 5,000 with institutional buying while RSI and MACD support further gains.",
      category |-> "breakout", stockSymbol |-> "LTTS", stockPrice |-> "Rs 5,123.40", priceChange |-> "+6.8%"],
     [title |-> "RBI Holds Rates, Focuses on Liquidity",
      content |-> "RBI kept repo rate unchanged at 6.5%.",
      category |-> "others", stockSymbol |-> "RBI POLICY", stockPrice |-> "6.5%", priceChange |-> "Unchanged"],
     [title |-> "Gold ETF Inflows Rise Amid Volatility",
      content |-> "Investors turned to Gold ETFs, with Rs 1,200 crore inflow in May amid global uncertainty.",
      category |-> "others", stockSymbol |-> "GOLD ETF", stockPrice |-> "Rs 5,847", priceChange |-> "+2.3%"],
     [title |-> "SEBI Warns Against Unregistered Advisors",
      content |-> "SEBI issued notices to 15 unregistered financial influencers offering paid tips on Telegram and YouTube.",
      category |-> "others", stockSymbol |-> "SEBI", stockPrice |-> "Regulatory", priceChange |-> "Action"],
     [title |-> "India's Forex Reserves Hit $650 Billion",
      content |-> "The RBI reported record forex reserves, providing a strong buffer against global shocks.",
      category |-> "others", stockSymbol |-> "FOREX", stockPrice |-> "$650B", priceChange |-> "Record High"],
     [title |-> "Retail Participation in F&O Surges 40%",
      content |-> "NSE data shows retail trading in F&O hit record highs.",
      category |-> "others", stockSymbol |-> "NSE F&O", stockPrice |-> "+40%", priceChange |-> "Volume"],
     [title |-> "One Point One Solutions Warrant Trading at 18% Discount",
      content |-> "One Point One Solutions Ltd warrant trading at significant discount to current market price.",
      category |-> "warrant", stockSymbol |-> "ONEPOINT", stockPrice |-> "Rs 68.00", priceChange |-> "+21.4%"],
     [title |-> "Systematix Group Warrants Trade Below Strike Price",
      content |-> "Share India Securities (Systematix Group) warrants trading below strike price indicating market caution.",
      category |-> "warrant", stockSymbol |-> "SYSTEMATIX", stockPrice |-> "Rs 510.00", priceChange |-> "-2.9%"],
     [title |-> "Bhatia Communications Warrant Shows 20% Discount Value",
      content |-> "Bhatia Communications & Retail Ltd warrant offers attractive 20% discount to current trading price.",
      category |-> "warrant", stockSymbol |-> "BHATIACOMM", stockPrice |-> "Rs 29.50", priceChange |-> "+24.2%"],
     [title |-> "PCBL Warrants at Modest 8% Discount Despite Large Size",
      content |-> "Phillips Carbon Black Ltd (PCBL) warrants trading at 8% discount despite representing 61% of market capitalization.",
      category |-> "warrant", stockSymbol |-> "PCBL", stockPrice |-> "Rs 255.00", priceChange |-> "+8.5%"],
     [title |-> "Diamond Power Infrastructure Warrant at 10% Discount",
      content |-> "Diamond Power Infrastructure Ltd warrant trading at 10% discount to current market levels following April 2025 issuance.",
      category |-> "warrant", stockSymbol |-> "DIAMONDPWR", stockPrice |-> "Rs 51.00", priceChange |-> "+10.9%"] >>

(***************************************************************************)
(* Bounds of the model.                                                    *)
(***************************************************************************)
\* Invocations of getArticles / forceSyncFromGoogleSheets in flight at once
\* (the startup callback is one more).
MaxCalls == 1

\* Times the clock advances after the server has started.
MaxTicks == 1

\* View counts are counted up to this value.
MaxViews == 1

Calls == 1..MaxCalls

\* Milliseconds the clock advances at a time.
TickMs == 150 * 1000

\* Date.now() when the process starts (any value above syncInterval).
StartTime == 2 * TickMs

\* private syncInterval = 2 * 60 * 1000
syncInterval == 2 * 60 * 1000

(***************************************************************************)
(* The spreadsheet: the rows the API returns for Sheet1!A2:O1000.          *)
(***************************************************************************)
RowNifty1 ==
  <<"7", "Nifty up", "Content A", "nifty", "NIFTY", "23000", "+1%", "NSE", "",
    "5 min ago", "false", "", "", "">>

RowNifty2 ==
  <<"2", "Nifty up again", "Content A", "nifty", "NIFTY", "23010", "+1.1%", "NSE", "",
    "6 min ago", "false", "", "", "">>

RowWarrant == <<"3", "HDFC call warrant", "Warrant volumes up", "Warrant">>

RowMovers ==
  <<"7", "Order win", "Large order", "Most Active", "", "", "", "", "", "", "TRUE">>

RowNoTitle == <<"9", "", "No title here">>

SheetPool ==
  { <<RowNifty1, RowNifty2>>,
    <<RowWarrant, RowNoTitle, RowMovers>> }

\* Ids the view and read requests of the model name.
RequestIds == {7, 99}

\* Ids POST /api/articles/:id/view is called with: three sample articles
\* (the twentieth lies beyond the first fifteen; none has an id a test
\* article made before the sample data could have) and an id nothing has.
ViewIds == {7, 12, 20, 99}

(***************************************************************************)
(* State.                                                                  *)
(***************************************************************************)
VARIABLES
  articles,          \* MemStorage.articles
  currentArticleId,  \* MemStorage.currentArticleId
  googleSheets,      \* MemStorage.googleSheets: null or the service
  lastSyncTime,      \* MemStorage.lastSyncTime
  now,               \* Date.now()
  sheet,             \* the rows of the spreadsheet
  sheetsInit,        \* whether initializeGoogleSheets has run its import
  pc,                \* where each asynchronous invocation stands
  kind,              \* what each invocation is a call of
  sheetsArticles,    \* the array fetchArticles resolved to, per invocation
  apiOutcome,        \* how the spreadsheet request of the invocation ended
  syncOutcome,       \* the branch syncFromGoogleSheets of the invocation took
  index,             \* forEach: rows of the array already processed
  preSync,           \* the store as it was when the forEach block was entered
  lastRead,          \* what the read that has just run was given
  label,             \* a category label handed to the normalizer
  normalized,        \* what the normalizer returned for it
  viewed,            \* view requests answered for an article it was stored for
  trending,          \* what the last getTrendingArticles call returned, and of which store
  bookmarks,         \* MemStorage.bookmarks
  currentBookmarkId, \* MemStorage.currentBookmarkId
  listing,           \* what the last getArticles call returned, for which category and of which store
  selected,          \* the getArticleImage calls made: the article given and the URL returned
  users,             \* the users table of DatabaseStorage
  dbArticles,        \* the articles table of DatabaseStorage
  dbListing          \* what the last DatabaseStorage.getArticles call returned, and to whom

vars ==
  <<articles, currentArticleId, googleSheets, lastSyncTime, now, sheet,
    sheetsInit, pc, kind, sheetsArticles, apiOutcome, syncOutcome, index,
    preSync, lastRead, label, normalized, viewed, trending, bookmarks,
    currentBookmarkId, listing, selected, users, dbArticles, dbListing>>

normVars == <<label, normalized>>

\* The variables the sync and the reads of the articles leave alone.
sideVars ==
  <<label, normalized, viewed, trending, bookmarks, currentBookmarkId, listing,
    selected, users, dbArticles, dbListing>>

\* The variables of the calls that only list or select, and of the database.
queryVars == <<listing, selected, users, dbArticles, dbListing>>

\* The variables of the database.
dbVars == <<users, dbArticles, dbListing>>

\* The variables of the bookmarks.
bookmarkVars == <<bookmarks, currentBookmarkId>>

\* No label has been normalized.
pending == "\\pending"

\* Invocation 0 is the callback of the constructor's setTimeout; the others
\* are calls made by the routes.
Startup == 0

Procs == {Startup} \cup Calls

service == "GoogleSheetsService"

NoSnapshot == [taken |-> FALSE]

NoRead == [read |-> FALSE]

NoTrending == [listed |-> FALSE]

NoListing == [listed |-> FALSE]

\* The user ids DatabaseStorage.getArticles is called with.
DbUsers == {1, 2}

\* MemStorage.createArticle: the article built from insertArticle.
createdArticle(insertArticle, id, date) ==
  [id          |-> id,
   title       |-> insertArticle.title,
   content     |-> insertArticle.content,
   category    |-> insertArticle.category,
   stockSymbol |-> insertArticle.stockSymbol,
   stockPrice  |-> insertArticle.stockPrice,
   priceChange |-> insertArticle.priceChange,
   isPremium   |-> FALSE,
   createdAt   |-> date]

\* Map.prototype.set of each element of news in turn; the ids of news are
\* distinct.
MapSetAll(m, news) ==
  [i \in 1..Len(m) |->
     IF \E j \in 1..Len(news) : news[j].id = m[i].id
     THEN news[CHOOSE j \in 1..Len(news) : news[j].id = m[i].id]
     ELSE m[i]]
  \o SelectSeq(news, LAMBDA article : ~MapHas(m, article.id))

\* MemStorage.initializeData: this.articles.set(1, ...) to set(4, ...),
\* currentArticleId = 5, then createArticle of each of sampleArticles.
initializeData(map, date) ==
  [articles |->
     MapSetAll(map,
       [i \in 1..Len(directArticles) |-> createdArticle(directArticles[i], i, date)]
       \o [i \in 1..Len(sampleArticles) |-> createdArticle(sampleArticles[i], 4 + i, date)]),
   currentArticleId |-> 5 + Len(sampleArticles)]

\* The rest of the forEach from the row at index on: the Map it ends with.
RECURSIVE forEachFrom(_, _, _)
forEachFrom(map, array, i) ==
  IF i >= Len(array) THEN map
  ELSE LET article == syncedArticle(map, array, i)
       IN  forEachFrom(MapSet(map, article), [array EXCEPT ![i + 1] = article], i + 1)

\* EventLoopFree if the forEach callback awaited: other handlers run between
\* two rows.
EventLoopYielding == TRUE

\* Lines 76-113 of storage.ts hold no await: from this.articles.clear() to
\* the end of the forEach nothing else runs on the event loop.
EventLoopFree == \A p \in Procs : pc[p] # "forEach"

\* The articles a read is given (Array.from(this.articles.values()) in
\* getArticles and getTrendingArticles, this.articles.get(id) in getArticle),
\* with the store as it was before the sync pass under way (if one is) and
\* as that pass leaves it.
ReadOf ==
  [read |-> TRUE,
   seen |-> articles,
   pre  |-> IF preSync.taken THEN preSync.articles ELSE articles,
   post |-> IF \E p \in Procs : pc[p] = "forEach"
            THEN LET p == CHOOSE q \in Procs : pc[q] = "forEach"
                 IN  forEachFrom(articles, sheetsArticles[p], index)
            ELSE articles]

\* The object the constructor leaves, before its two asynchronous calls
\* have run.
\* The state the constructor leaves, but for the articles and the next id.
ConstructedAside ==
  /\ googleSheets = null
  /\ lastSyncTime = 0
  /\ now = StartTime
  /\ sheetsInit = "pending"
  /\ pc = [p \in Procs |-> IF p = Startup THEN "timer" ELSE "idle"]
  /\ kind = [p \in Procs |-> IF p = Startup THEN "startup" ELSE "none"]
  /\ sheetsArticles = [p \in Procs |-> <<>>]
  /\ apiOutcome = [p \in Procs |-> "none"]
  /\ syncOutcome = [p \in Procs |-> "none"]
  /\ index = 0
  /\ preSync = NoSnapshot
  /\ lastRead = NoRead
  /\ normalized = pending
  /\ viewed = [id \in ViewIds |-> 0]
  /\ trending = NoTrending
  /\ bookmarks = <<>>
  /\ currentBookmarkId = 1
  /\ listing = NoListing
  /\ selected = <<>>
  /\ users = <<>>
  /\ dbArticles = <<>>
  /\ dbListing = NoListing

Constructed ==
  /\ articles = <<>>
  /\ currentArticleId = 1
  /\ ConstructedAside

Init ==
  /\ Constructed
  /\ sheet \in SheetPool
  /\ label = ""

(***************************************************************************)
(* Actions.                                                                *)
(***************************************************************************)
\* MemStorage.initializeGoogleSheets, after its dynamic import: createFromEnv
\* gives the service if the environment holds the credentials, null if not.
InitializeGoogleSheets(credentials) ==
  /\ sheetsInit = "pending"
  /\ EventLoopFree
  /\ sheetsInit' = "done"
  /\ googleSheets' = IF credentials THEN service ELSE null
  /\ lastRead' = NoRead
  /\ UNCHANGED sideVars
  /\ UNCHANGED <<articles, currentArticleId, lastSyncTime, now, sheet, pc, kind,
                 sheetsArticles, apiOutcome, syncOutcome, index, preSync>>

\* The callback of setTimeout in initializeWithSampleDataIfNeeded, up to its
\* await.
StartupTimer ==
  /\ pc[Startup] = "timer"
  /\ EventLoopFree
  /\ IF googleSheets = null
     THEN /\ articles' = initializeData(articles, now).articles
          /\ currentArticleId' = initializeData(articles, now).currentArticleId
          /\ pc' = [pc EXCEPT ![Startup] = "done"]
     ELSE /\ pc' = [pc EXCEPT ![Startup] = "fetch"]
          /\ UNCHANGED <<articles, currentArticleId>>
  /\ lastRead' = NoRead
  /\ UNCHANGED sideVars
  /\ UNCHANGED <<googleSheets, lastSyncTime, now, sheet, sheetsInit, kind,
                 sheetsArticles, apiOutcome, syncOutcome, index, preSync>>

\* MemStorage.getArticles up to its await: a stale or empty store starts a
\* sync pass, otherwise the articles are read at once.
GetArticles(c) ==
  /\ pc[c] = "idle"
  /\ EventLoopFree
  /\ IF googleSheets # null
        /\ (now - lastSyncTime > syncInterval \/ Len(articles) = 0)
     THEN /\ pc' = [pc EXCEPT ![c] = "fetch"]
          /\ kind' = [kind EXCEPT ![c] = "getArticles"]
          /\ lastRead' = NoRead
     ELSE /\ lastRead' = ReadOf
          /\ UNCHANGED <<pc, kind>>
  /\ UNCHANGED sideVars
  /\ UNCHANGED <<articles, currentArticleId, googleSheets, lastSyncTime, now,
                 sheet, sheetsInit, sheetsArticles, apiOutcome, syncOutcome,
                 index, preSync>>

\* MemStorage.forceSyncFromGoogleSheets up to its await.
ForceSync(c) ==
  /\ pc[c] = "idle"
  /\ EventLoopFree
  /\ lastSyncTime' = 0
  /\ pc' = [pc EXCEPT ![c] = IF googleSheets = null THEN "returned" ELSE "fetch"]
  /\ kind' = [kind EXCEPT ![c] = "forceSync"]
  /\ lastRead' = NoRead
  /\ UNCHANGED sideVars
  /\ UNCHANGED <<articles, currentArticleId, googleSheets, now, sheet,
                 sheetsInit, sheetsArticles, apiOutcome, syncOutcome, index,
                 preSync>>

\* The spreadsheet request of fetchArticles settles, with the rows the sheet
\* holds now or with an error, and fetchArticles resolves.
FetchResolve(p) ==
  /\ pc[p] = "fetch"
  /\ EventLoopFree
  /\ \E ok \in BOOLEAN :
       /\ apiOutcome' = [apiOutcome EXCEPT ![p] = IF ok THEN "ok" ELSE "error"]
       /\ sheetsArticles' = [sheetsArticles EXCEPT
             ![p] = fetchArticles(IF ok THEN sheet ELSE apiError, now)]
  /\ pc' = [pc EXCEPT ![p] = "fetched"]
  /\ lastRead' = NoRead
  /\ UNCHANGED sideVars
  /\ UNCHANGED <<articles, currentArticleId, googleSheets, lastSyncTime, now,
                 sheet, sheetsInit, kind, syncOutcome, index, preSync>>

\* SyncContinue with this.articles.clear() and the reset of the counter moved
\* above the test of the length.
SyncContinueClearsFirst(p) ==
  /\ pc[p] = "fetched"
  /\ EventLoopFree
  /\ articles' = <<>>
  /\ currentArticleId' = 1
  /\ IF Len(sheetsArticles[p]) > 0
     THEN /\ preSync' = [taken |-> TRUE, articles |-> articles,
                         currentArticleId |-> currentArticleId]
          /\ index' = 0
          /\ pc' = [pc EXCEPT ![p] = "forEach"]
          /\ UNCHANGED syncOutcome
     ELSE /\ syncOutcome' = [syncOutcome EXCEPT ![p] = "empty"]
          /\ pc' = [pc EXCEPT ![p] = "returned"]
          /\ UNCHANGED <<index, preSync>>
  /\ lastRead' = NoRead
  /\ UNCHANGED sideVars
  /\ UNCHANGED <<googleSheets, lastSyncTime, now, sheet, sheetsInit, kind,
                 sheetsArticles, apiOutcome>>

\* syncFromGoogleSheets after its await, lines 76-79 and 114-116.
SyncContinue(p) ==
  /\ pc[p] = "fetched"
  /\ EventLoopFree
  /\ IF Len(sheetsArticles[p]) > 0
     THEN /\ preSync' = [taken |-> TRUE, articles |-> articles,
                         currentArticleId |-> currentArticleId]
          /\ articles' = <<>>
          /\ currentArticleId' = 1
          /\ index' = 0
          /\ pc' = [pc EXCEPT ![p] = "forEach"]
          /\ UNCHANGED syncOutcome
     ELSE /\ syncOutcome' = [syncOutcome EXCEPT ![p] = "empty"]
          /\ pc' = [pc EXCEPT ![p] = "returned"]
          /\ UNCHANGED <<articles, currentArticleId, index, preSync>>
  /\ lastRead' = NoRead
  /\ UNCHANGED sideVars
  /\ UNCHANGED <<googleSheets, lastSyncTime, now, sheet, sheetsInit, kind,
                 sheetsArticles, apiOutcome>>

\* One run of the forEach callback, lines 81-110.
ForEachStep(p) ==
  /\ pc[p] = "forEach"
  /\ index < Len(sheetsArticles[p])
  /\ LET article == syncedArticle(articles, sheetsArticles[p], index)
     IN  /\ sheetsArticles' = [sheetsArticles EXCEPT ![p][index + 1] = article]
         /\ articles' = MapSet(articles, article)
         /\ currentArticleId' = IF article.id >= currentArticleId
                                THEN article.id + 1
                                ELSE currentArticleId
  /\ index' = index + 1
  /\ lastRead' = NoRead
  /\ UNCHANGED sideVars
  /\ UNCHANGED <<googleSheets, lastSyncTime, now, sheet, sheetsInit, pc, kind,
                 apiOutcome, syncOutcome, preSync>>

\* Lines 112-113: the pass is over and syncFromGoogleSheets resolves.
SyncDone(p) ==
  /\ pc[p] = "forEach"
  /\ index = Len(sheetsArticles[p])
  /\ lastSyncTime' = now
  /\ syncOutcome' = [syncOutcome EXCEPT ![p] = "synced"]
  /\ pc' = [pc EXCEPT ![p] = "returned"]
  /\ sheetsArticles' = [sheetsArticles EXCEPT ![p] = <<>>]
  /\ index' = 0
  /\ preSync' = NoSnapshot
  /\ lastRead' = NoRead
  /\ UNCHANGED sideVars
  /\ UNCHANGED <<articles, currentArticleId, googleSheets, now, sheet,
                 sheetsInit, kind, apiOutcome>>

\* The caller goes on after await this.syncFromGoogleSheets(): getArticles
\* reads the articles, the startup callback falls back to the sample data
\* if the store is empty, forceSyncFromGoogleSheets returns.
Return(p) ==
  /\ pc[p] = "returned"
  /\ EventLoopFree
  /\ IF kind[p] = "startup" /\ Len(articles) = 0
     THEN /\ articles' = initializeData(articles, now).articles
          /\ currentArticleId' = initializeData(articles, now).currentArticleId
     ELSE UNCHANGED <<articles, currentArticleId>>
  /\ lastRead' = IF kind[p] = "getArticles" THEN ReadOf ELSE NoRead
  /\ UNCHANGED sideVars
  /\ pc' = [pc EXCEPT ![p] = IF p = Startup THEN "done" ELSE "idle"]
  /\ kind' = [kind EXCEPT ![p] = IF p = Startup THEN "startup" ELSE "none"]
  /\ sheetsArticles' = [sheetsArticles EXCEPT ![p] = <<>>]
  /\ apiOutcome' = [apiOutcome EXCEPT ![p] = "none"]
  /\ syncOutcome' = [syncOutcome EXCEPT ![p] = "none"]
  /\ UNCHANGED <<googleSheets, lastSyncTime, now, sheet, sheetsInit, index,
                 preSync>>

\* MemStorage.getArticle
GetArticle(id) ==
  /\ EventLoopFree
  /\ lastRead' = ReadOf
  /\ UNCHANGED sideVars
  /\ UNCHANGED <<articles, currentArticleId, googleSheets, lastSyncTime, now,
                 sheet, sheetsInit, pc, kind, sheetsArticles, apiOutcome,
                 syncOutcome, index, preSync>>

\* MemStorage.incrementViewCount
IncrementViewCount(articleId) ==
  /\ EventLoopFree
  /\ IF MapHas(articles, articleId)
     THEN /\ ViewCountOf(MapGet(articles, articleId)) < MaxViews
          /\ articles' = MapSet(articles,
                ("viewCount" :> ViewCountOf(MapGet(articles, articleId)) + 1)
                  @@ MapGet(articles, articleId))
     ELSE UNCHANGED articles
  /\ lastRead' = NoRead
  /\ UNCHANGED sideVars
  /\ UNCHANGED <<currentArticleId, googleSheets, lastSyncTime, now, sheet,
                 sheetsInit, pc, kind, sheetsArticles, apiOutcome, syncOutcome,
                 index, preSync>>

\* Time passes.
Tick ==
  /\ EventLoopFree
  /\ now < StartTime + MaxTicks * TickMs
  /\ now' = now + TickMs
  /\ lastRead' = NoRead
  /\ UNCHANGED sideVars
  /\ UNCHANGED <<articles, currentArticleId, googleSheets, lastSyncTime, sheet,
                 sheetsInit, pc, kind, sheetsArticles, apiOutcome, syncOutcome,
                 index, preSync>>

\* The spreadsheet is edited by its owner.
EditSheet ==
  /\ EventLoopFree
  /\ \E rows \in SheetPool \ {sheet} : sheet' = rows
  /\ lastRead' = NoRead
  /\ UNCHANGED sideVars
  /\ UNCHANGED <<articles, currentArticleId, googleSheets, lastSyncTime, now,
                 sheetsInit, pc, kind, sheetsArticles, apiOutcome, syncOutcome,
                 index, preSync>>

\* The server of a deployment that has the spreadsheet credentials.
Next ==
  \/ InitializeGoogleSheets(TRUE)
  \/ StartupTimer
  \/ \E c \in Calls : GetArticles(c)
  \/ \E c \in Calls : ForceSync(c)
  \/ \E p \in Procs : FetchResolve(p)
  \/ \E p \in Procs : SyncContinue(p)
  \/ \E p \in Procs : ForEachStep(p)
  \/ \E p \in Procs : SyncDone(p)
  \/ \E p \in Procs : Return(p)
  \/ \E id \in RequestIds : GetArticle(id)
  \/ \E id \in RequestIds : IncrementViewCount(id)
  \/ Tick
  \/ EditSheet

Spec == Init /\ [][Next]_vars

(***************************************************************************)
(* mapToValidCategory on its own: a label is normalized the way            *)
(* fetchArticles does it, lower-cased and trimmed and then looked up.      *)
(***************************************************************************)
\* Longest label built from LabelChars.
MaxLabelLen == 3

LabelChars == {"a", "t", "h", "P", " "}

RECURSIVE LabelsUpTo(_)
LabelsUpTo(n) ==
  IF n = 0 THEN {""}
  ELSE LabelsUpTo(n - 1) \cup
       {l \o c : l \in {k \in LabelsUpTo(n - 1) : Len(k) = n - 1}, c \in LabelChars}

\* Labels a spreadsheet cell may hold: aliases in several spellings, text
\* no alias matches, names every JavaScript object inherits, every string
\* over LabelChars up to MaxLabelLen, and every alias of the table with
\* white space around it.
Labels ==
  {"Most Active", "GLOBAL", "Global ", " global", "global", "Warrant",
   "SME IPO", "sme", "Order Wins", "Research Report", "trending", "xyz",
   "constructor", "__proto__", "toString", "Quarterly results Q3"}
    \cup LabelsUpTo(MaxLabelLen)
    \cup {" " \o categoryMap[k][1] \o "  " : k \in 1..Len(categoryMap)}

InitNormalize ==
  /\ Constructed
  /\ sheet = <<>>
  /\ label \in Labels

\* (row[3] || '').toLowerCase().trim() and this.mapToValidCategory of it.
Normalize ==
  /\ normalized = pending
  /\ normalized' = normalize(label)
  /\ UNCHANGED <<articles, currentArticleId, googleSheets, lastSyncTime, now,
                 sheet, sheetsInit, pc, kind, sheetsArticles, apiOutcome,
                 syncOutcome, index, preSync, lastRead, label, viewed,
                 trending, bookmarks, currentBookmarkId,
                 queryVars>>

NextNormalize == Normalize

SpecNormalize == InitNormalize /\ [][NextNormalize]_vars

(***************************************************************************)
(* One sync pass, the one the startup callback makes, over spreadsheets    *)
(* of every length up to MaxBatch.                                         *)
(***************************************************************************)
\* Rows of the longest spreadsheet.
MaxBatch == 7

\* Title and content a row of a batch may carry.
BatchTexts ==
  << [title |-> "Nifty up", content |-> "Content A"],
     [title |-> "Sensex up", content |-> "Content B"] >>

\* The spreadsheet whose row i carries the id i and the texts choice[i].
BatchOf(choice) ==
  [i \in 1..Len(choice) |->
     <<ToString(i), BatchTexts[choice[i]].title, BatchTexts[choice[i]].content,
       "nifty">>]

Batches ==
  UNION {{BatchOf(choice) : choice \in [1..n -> 1..Len(BatchTexts)]} : n \in 1..MaxBatch}

InitBatch ==
  /\ Constructed
  /\ sheet \in Batches
  /\ label = ""

NextBatch ==
  \/ InitializeGoogleSheets(TRUE)
  \/ StartupTimer
  \/ FetchResolve(Startup)
  \/ SyncContinue(Startup)
  \/ ForEachStep(Startup)
  \/ SyncDone(Startup)
  \/ Return(Startup)

SpecBatch == InitBatch /\ [][NextBatch]_vars

(***************************************************************************)
(* Properties of the sync pass and of the reads, checked under Spec.       *)
(***************************************************************************)
\* The forEach of some pass has processed its last row; preSync is the store
\* the pass found.
PassComplete ==
  \E p \in Procs : pc[p] = "forEach" /\ index = Len(sheetsArticles[p])

\* C1: every article id that was in the store before a sync and is in the
\* batch of that sync again has, after the sync, the view count it had
\* before it.
ViewCountCarriedForward ==
  PassComplete =>
    \A i \in 1..Len(preSync.articles) :
      MapHas(articles, preSync.articles[i].id) =>
        ViewCountOf(MapGet(articles, preSync.articles[i].id))
          = ViewCountOf(preSync.articles[i])

\* C3: a sync pass whose spreadsheet request failed changes neither the
\* stored articles nor the next-id counter, from the failure of the request
\* to the return of syncFromGoogleSheets.
FailedFetchKeepsStore ==
  [][\A p \in Procs :
       (apiOutcome'[p] = "error" /\ pc'[p] # pc[p])
         => (articles' = articles /\ currentArticleId' = currentArticleId)]_vars

\* A pass whose request failed has returned and the store still holds
\* articles.
FailedFetchReturned ==
  \E p \in Procs :
    pc[p] = "returned" /\ apiOutcome[p] = "error" /\ Len(articles) > 0

\* C4: a sync changes nothing in the store before every row of the batch has
\* been mapped and de-duplicated: while rows are left to process the stored
\* articles and the next-id counter are what they were before the pass.
NoMutationBeforeDeduplicated ==
  \A p \in Procs :
    (pc[p] = "forEach" /\ index < Len(sheetsArticles[p]))
      => (articles = preSync.articles /\ currentArticleId = preSync.currentArticleId)

PremiumCategories == {"warrant", "breakout"}

\* One of the four articles initializeData stores with this.articles.set,
\* which neither a sync nor createArticle made.
SetDirectly(article) ==
  \E i \in 1..Len(directArticles) :
    article = createdArticle(directArticles[i], i, article.createdAt)

\* C5: every stored article that a sync or createArticle made is premium
\* exactly when its category is warrant or breakout or its source flagged
\* it.  An article that is premium without such a category is one its row
\* flagged (isPremium is the flag), so what is left to state is that the
\* articles of the two categories are premium.
PremiumDerivedFromCategory ==
  \A i \in 1..Len(articles) :
    (~SetDirectly(articles[i]) /\ articles[i].category \in PremiumCategories)
      => articles[i].isPremium

\* C6: a read is given the complete set of articles of before the sync pass
\* under way or the complete set of after it, never a set in between.
ReadsSeeWholeSet ==
  lastRead.read => (lastRead.seen = lastRead.pre \/ lastRead.seen = lastRead.post)

\* A read has run while a sync pass was between its fetch and its commit,
\* and was given articles.
ReadDuringSync ==
  /\ lastRead.read
  /\ Len(lastRead.seen) > 0
  /\ \E p \in Procs : pc[p] \in {"fetch", "fetched"}

\* C7: at most one sync pass is between its start and its commit at any
\* time.
SyncPassesDoNotOverlap ==
  Cardinality({p \in Procs : pc[p] \in {"fetch", "fetched", "forEach"}}) <= 1

\* C9: the createdAt of an article is not changed by a later sync whose
\* batch holds the same id.
CreatedAtKeptAcrossSync ==
  PassComplete =>
    \A i \in 1..Len(preSync.articles) :
      MapHas(articles, preSync.articles[i].id) =>
        MapGet(articles, preSync.articles[i].id).createdAt
          = preSync.articles[i].createdAt

\* C10: what syncFromGoogleSheets is handed after a failed request differs
\* from what it is handed after a request that succeeded with no rows.
FailedFetchDistinguishable ==
  \A p \in Procs :
    (pc[p] = "fetched" /\ apiOutcome[p] = "error")
      => sheetsArticles[p] # fetchArticles(<<>>, now)

\* The rows of the spreadsheet that fetchArticles maps.
acceptedRows == SelectSeq(sheet, RowAccepted)

\* C2: within one batch, two rows whose raw contents are equal and not
\* empty end as two stored articles whose contents differ, whatever the
\* length of the batch and the positions of the two rows.
BatchContentsDiffer ==
  \A p \in Procs :
    (pc[p] = "forEach" /\ index = Len(sheetsArticles[p])
       /\ Len(sheetsArticles[p]) = Len(acceptedRows)) =>
      \A i, j \in 1..Len(acceptedRows) :
        ( /\ i < j
          /\ Cell(acceptedRows[i], 2) = Cell(acceptedRows[j], 2)
          /\ Cell(acceptedRows[i], 2) # ""
          /\ sheetsArticles[p][i].id # sheetsArticles[p][j].id
          /\ MapHas(articles, sheetsArticles[p][i].id)
          /\ MapHas(articles, sheetsArticles[p][j].id) )
        => MapGet(articles, sheetsArticles[p][i].id).content
             # MapGet(articles, sheetsArticles[p][j].id).content

\* The categories mapToValidCategory names; the one written sme_ipo in
\* prose is the string 'sme ipo' here.
CategorySet ==
  {"nifty", "breakout", "movers", "warrant", "ipo", "sme ipo", "order_wins",
   "ath", "results", "research_report", "others", "global"}

\* C8: for every label, the empty one and unrecognised text included, the
\* normalizer returns one value of the fixed category set, never trending,
\* and never fails.
NormalizerTotal == normalized # pending => normalized \in CategorySet

\* How the promise of forceSyncFromGoogleSheets settles for its caller:
\* syncFromGoogleSheets catches whatever its body throws (line 117), and
\* fetchArticles has already turned a failed request into [], so no
\* outcome of a pass rejects.
forceSyncSettles(outcome) == IF outcome = "threw" THEN "rejected" ELSE "fulfilled"

\* The status POST /api/sync-sheets answers with.
syncSheetsStatus(outcome) == IF forceSyncSettles(outcome) = "rejected" THEN 500 ELSE 200

\* C11: when the spreadsheet request fails, an explicit forceSync reports a
\* failure to its caller (the route answers 500), whereas a sync started by
\* a read or at startup only logs the error.
ForceSyncReportsFailure ==
  \A p \in Procs :
    (pc[p] = "returned" /\ kind[p] = "forceSync" /\ apiOutcome[p] = "error")
      => syncSheetsStatus(syncOutcome[p]) = 500

(***************************************************************************)
(* The server of a deployment without the spreadsheet credentials: the     *)
(* sample data, the view requests, the test articles and the trending      *)
(* list.                                                                   *)
(***************************************************************************)
\* View requests answered per article.
MaxTrackedViews == 2

\* Test articles in the store at a time.
MaxCreates == 1

\* The two articles of MemStorage.addTestArticle (first sentence of each
\* body, the rupee sign written Rs).
testArticles ==
  << [title |-> "Breaking: Sensex Crosses 80,000 Mark in Historic Rally",
      content |-> "Indian stock markets witnessed historic milestone as BSE Sensex crossed 80,000 points for first time ever.",
      category |-> "nifty", stockSymbol |-> "SENSEX", stockPrice |-> "Rs 80,125", priceChange |-> "+2.1%"],
     [title |-> "Reliance Industries Announces Major Green Energy Investment",
      content |-> "Reliance Industries announced Rs 75,000 crore investment in renewable energy over next 3 years.",
      category |-> "breakout", stockSymbol |-> "RELIANCE", stockPrice |-> "Rs 2,845", priceChange |-> "+4.2%"] >>

\* incrementViewCount writing back a count computed from the article as it
\* was before any call wrote to it.
incrementViewCountFromStaleRead(map, articleId) ==
  IF MapHas(map, articleId)
  THEN MapSet(map, ("viewCount" :> 1) @@ MapGet(map, articleId))
  ELSE map

\* MemStorage.incrementViewCount: the Map it leaves.  The method holds no
\* await, so its read, its addition and its write are one turn of the
\* event loop.
incrementViewCount(map, articleId) ==
  IF MapHas(map, articleId)
  THEN MapSet(map, ("viewCount" :> ViewCountOf(MapGet(map, articleId)) + 1)
                     @@ MapGet(map, articleId))
  ELSE map

\* POST /api/articles/:id/view
TrackView(id) ==
  /\ EventLoopFree
  /\ viewed[id] < MaxTrackedViews
  /\ articles' = incrementViewCount(articles, id)
  /\ viewed' = IF MapHas(articles, id) THEN [viewed EXCEPT ![id] = @ + 1] ELSE viewed
  /\ trending' = NoTrending
  /\ lastRead' = NoRead
  /\ UNCHANGED <<currentArticleId, googleSheets, lastSyncTime, now, sheet,
                 sheetsInit, pc, kind, sheetsArticles, apiOutcome, syncOutcome,
                 index, preSync, label, normalized, bookmarks, currentBookmarkId,
                 queryVars>>

\* The test articles the store holds.
storedTestArticles ==
  {i \in 1..Len(articles) :
     \E t \in 1..Len(testArticles) : articles[i].title = testArticles[t].title}

\* MemStorage.createArticle
CreateArticle(insertArticle) ==
  /\ EventLoopFree
  /\ Cardinality(storedTestArticles) < MaxCreates
  /\ articles' = MapSet(articles, createdArticle(insertArticle, currentArticleId, now))
  /\ currentArticleId' = currentArticleId + 1
  /\ trending' = NoTrending
  /\ lastRead' = NoRead
  /\ UNCHANGED <<googleSheets, lastSyncTime, now, sheet, sheetsInit, pc, kind,
                 sheetsArticles, apiOutcome, syncOutcome, index, preSync,
                 label, normalized, viewed, bookmarks, currentBookmarkId,
                 queryVars>>

\* MemStorage.addTestArticle: createArticle of one of the two test articles,
\* whichever Math.random() picks.
AddTestArticle == \E t \in 1..Len(testArticles) : CreateArticle(testArticles[t])

\* The comparator that orders by recency alone.
compareByRecency(a, b) == b.createdAt - a.createdAt

\* The comparator of getTrendingArticles: negative if a comes before b.
compareByViews(a, b) ==
  IF ViewCountOf(a) # ViewCountOf(b)
  THEN ViewCountOf(b) - ViewCountOf(a)
  ELSE b.createdAt - a.createdAt

\* Array.prototype.sort with compareByViews.  The sort is stable: an element
\* comes after those that compare lower and after those that compare equal
\* and stood before it.
sortByViews(array) ==
  LET rank == [i \in 1..Len(array) |->
                Cardinality({j \in 1..Len(array) :
                   \/ compareByViews(array[j], array[i]) < 0
                   \/ compareByViews(array[j], array[i]) = 0 /\ j < i})]
  IN  [k \in 1..Len(array) |-> array[CHOOSE i \in 1..Len(array) : rank[i] = k - 1]]

\* Array.prototype.slice(begin, end)
slice(array, begin, end) == SubSeq(array, begin + 1, Min({end, Len(array)}))

\* The categories getTrendingArticles gives two places each.
trendingCategories == <<"nifty", "breakout", "ipo", "research_report", "movers">>

\* getTrendingArticles with three places for each category instead of two.
getTrendingArticlesThreeEach(map) ==
  LET sortedByViews     == sortByViews(map)
      mostViewed        == slice(sortedByViews, 0, 15)
      remainingArticles == slice(sortedByViews, 15, Len(sortedByViews))
      ofCategory(c)     == slice(SelectSeq(remainingArticles,
                                   LAMBDA a : a.category = c), 0, 3)
      others            == slice(SelectSeq(remainingArticles,
                                   LAMBDA a : \A k \in 1..Len(trendingCategories) :
                                                a.category # trendingCategories[k]), 0, 5)
  IN  mostViewed \o ofCategory("nifty") \o ofCategory("breakout") \o ofCategory("ipo")
        \o ofCategory("research_report") \o ofCategory("movers") \o others

\* MemStorage.getTrendingArticles
getTrendingArticles(map) ==
  LET sortedByViews     == sortByViews(map)
      mostViewed        == slice(sortedByViews, 0, 15)
      remainingArticles == slice(sortedByViews, 15, Len(sortedByViews))
      ofCategory(c)     == slice(SelectSeq(remainingArticles,
                                   LAMBDA a : a.category = c), 0, 2)
      others            == slice(SelectSeq(remainingArticles,
                                   LAMBDA a : \A k \in 1..Len(trendingCategories) :
                                                a.category # trendingCategories[k]), 0, 5)
  IN  mostViewed \o ofCategory("nifty") \o ofCategory("breakout") \o ofCategory("ipo")
        \o ofCategory("research_report") \o ofCategory("movers") \o others

\* getArticles("trending") of a store that needs no sync, and
\* getTrendingArticles.
GetTrendingArticles ==
  /\ EventLoopFree
  /\ ~(googleSheets # null
        /\ (now - lastSyncTime > syncInterval \/ Len(articles) = 0))
  /\ trending' = [listed |-> TRUE, list |-> getTrendingArticles(articles),
                  store |-> articles]
  /\ lastRead' = ReadOf
  /\ UNCHANGED <<articles, currentArticleId, googleSheets, lastSyncTime, now,
                 sheet, sheetsInit, pc, kind, sheetsArticles, apiOutcome,
                 syncOutcome, index, preSync, label, normalized, viewed,
                 bookmarks, currentBookmarkId,
                 queryVars>>

InitLocal ==
  /\ Constructed
  /\ sheet = <<>>
  /\ label = ""

NextLocal ==
  \/ InitializeGoogleSheets(FALSE)
  \/ StartupTimer
  \/ \E id \in ViewIds : TrackView(id)
  \/ AddTestArticle
  \/ GetTrendingArticles
  \/ Tick

SpecLocal == InitLocal /\ [][NextLocal]_vars

\* C12: view requests for one stored article never lose an update: after n
\* of them have been answered, in whatever order, with no sync in between,
\* the view count of the article is n higher than it was (it was 0).
ViewCountsNeverLost ==
  \A id \in ViewIds :
    MapHas(articles, id) => ViewCountOf(MapGet(articles, id)) = viewed[id]

\* Two view requests for the article 7 have been answered.
TwoViewsCounted ==
  /\ viewed[7] = 2
  /\ MapHas(articles, 7)
  /\ ViewCountOf(MapGet(articles, 7)) = 2

(***************************************************************************)
(* Progress of the reads that start a sync.  The event loop runs every     *)
(* continuation that is ready, hence the weak fairness of the steps after  *)
(* the await.  The response of the spreadsheet API is the environment's:   *)
(* fetchArticles awaits spreadsheets.values.get without a timeout and      *)
(* syncFromGoogleSheets awaits fetchArticles without one, so nothing       *)
(* forces FetchResolve to happen.                                          *)
(***************************************************************************)
NextWaiting ==
  \/ InitializeGoogleSheets(TRUE)
  \/ StartupTimer
  \/ \E c \in Calls : GetArticles(c)
  \/ \E p \in Procs : FetchResolve(p)
  \/ \E p \in Procs : SyncContinue(p)
  \/ \E p \in Procs : ForEachStep(p)
  \/ \E p \in Procs : SyncDone(p)
  \/ \E p \in Procs : Return(p)
  \/ Tick

EventLoopRuns ==
  \A p \in Procs :
    /\ WF_vars(SyncContinue(p))
    /\ WF_vars(ForEachStep(p))
    /\ WF_vars(SyncDone(p))
    /\ WF_vars(Return(p))

SpecWaiting == Init /\ [][NextWaiting]_vars /\ EventLoopRuns

\* C13: no storage operation blocks for ever: a getArticles call that has
\* started a sync returns in the end, even if the spreadsheet API never
\* responds.
GetArticlesReturns == \A c \in Calls : (pc[c] = "fetch") ~> (pc[c] = "idle")

\* The articles that come first in a trending list of the store.
mostViewedOf(list, store) == SubSeq(list, 1, Min({15, Len(store)}))

\* The list is headed by the min(15, n) most viewed articles of the store,
\* in descending order of view count, the newer first among equals.
RankedFor(list, store) ==
  LET first == mostViewedOf(list, store)
  IN  /\ Len(list) >= Min({15, Len(store)})
      /\ \A i \in 1..Len(first) :
           MapHas(store, first[i].id) /\ MapGet(store, first[i].id) = first[i]
      /\ \A i, j \in 1..Len(first) :
           i < j =>
             /\ first[i].id # first[j].id
             /\ ViewCountOf(first[i]) >= ViewCountOf(first[j])
             /\ ViewCountOf(first[i]) = ViewCountOf(first[j])
                  => first[i].createdAt >= first[j].createdAt
      /\ \A k \in 1..Len(store) :
           (\A i \in 1..Len(first) : first[i].id # store[k].id)
             => \A i \in 1..Len(first) : ViewCountOf(first[i]) >= ViewCountOf(store[k])

\* C14: getArticles("trending") returns first the min(15, n) stored
\* articles with the highest view counts, in descending order of view
\* count, ties broken by the newer createdAt first.
TrendingRanked == trending.listed => RankedFor(trending.list, trending.store)

\* A trending list of more than fifteen articles headed by an article
\* viewed twice, in which a newer article precedes an older one of the same
\* view count.
TrendingListed ==
  /\ trending.listed
  /\ Len(trending.store) > 15
  /\ ViewCountOf(trending.list[1]) = 2
  /\ \E i \in 1..14 :
       /\ ViewCountOf(trending.list[i]) = ViewCountOf(trending.list[i + 1])
       /\ trending.list[i].createdAt > trending.list[i + 1].createdAt

(***************************************************************************)
(* The server in front of a spreadsheet that yields no article: one with   *)
(* no data row, or one whose only row the filter rejects.  No pass enters  *)
(* the forEach block.                                                      *)
(***************************************************************************)
EmptySheets == {<<>>, <<RowNoTitle>>}

InitEmptySheet ==
  /\ Constructed
  /\ sheet \in EmptySheets
  /\ label = ""

NextEmptySheet ==
  \/ InitializeGoogleSheets(TRUE)
  \/ StartupTimer
  \/ \E c \in Calls : GetArticles(c)
  \/ \E c \in Calls : ForceSync(c)
  \/ \E p \in Procs : FetchResolve(p)
  \/ \E p \in Procs : SyncContinue(p)
  \/ \E p \in Procs : Return(p)
  \/ \E id \in RequestIds : IncrementViewCount(id)
  \/ Tick

SpecEmptySheet == InitEmptySheet /\ [][NextEmptySheet]_vars

\* C15: a sync whose fetch succeeds with zero rows is a no-op: no step of
\* the pass changes the stored articles, their view counts or the next-id
\* counter, and the pass ends without an error.
ZeroRowsKeepStore ==
  [][\A p \in Procs :
       (apiOutcome'[p] = "ok" /\ Len(sheetsArticles'[p]) = 0
          /\ pc'[p] \in {"fetched", "returned"} /\ pc'[p] # pc[p])
         => /\ articles' = articles
            /\ currentArticleId' = currentArticleId
            /\ syncOutcome'[p] # "threw"]_vars

\* A pass has ended on zero rows over a store that holds an article viewed
\* once.
ZeroRowsReturned ==
  \E p \in Procs :
    /\ pc[p] = "returned"
    /\ apiOutcome[p] = "ok"
    /\ syncOutcome[p] = "empty"
    /\ MapHas(articles, 7)
    /\ ViewCountOf(MapGet(articles, 7)) = 1

(***************************************************************************)
(* The startup sync over spreadsheets of up to MaxRows rows of every       *)
(* shape: with and without id, title and content, with boilerplate and     *)
(* with repeated content.                                                  *)
(***************************************************************************)
\* Rows of the longest spreadsheet.
MaxRows == 3

RowNoId == <<"", "Title only", "Some content", "ipo">>

RowNeither == <<"", "", "Orphan text", "ipo">>

RowBlankContent ==
  <<"4", "Bank Nifty", "   ", "nifty", "BANKNIFTY", "51000", "+0.5%">>

RowEmptyContent == <<"5", "Midcap rally", "", "movers">>

RowBoilerplate ==
  <<"6", "Closing bell", "Domestic indices extended gains today.", "nifty">>

\* A row whose id cell holds no number and that ends before its category
\* cell.
RowTextId == <<"n/a", "Gold steady", "Content B">>

\* A row whose category cell is empty.
RowEmptyCategory == <<"10", "Silver slips", "Content C", "", "SILVER">>

RowShapes ==
  {RowNifty1, RowNifty2, RowNoTitle, RowNoId, RowNeither, RowBlankContent,
   RowEmptyContent, RowBoilerplate, RowTextId, RowEmptyCategory}

RowSheets == UNION {[1..n -> RowShapes] : n \in 1..MaxRows}

InitRows ==
  /\ Constructed
  /\ sheet \in RowSheets
  /\ label = ""

NextRows ==
  \/ InitializeGoogleSheets(TRUE)
  \/ StartupTimer
  \/ FetchResolve(Startup)
  \/ SyncContinue(Startup)
  \/ ForEachStep(Startup)
  \/ SyncDone(Startup)
  \/ Return(Startup)

SpecRows == InitRows /\ [][NextRows]_vars

\* The rows of the spreadsheet that have an id or a title.
usableRows == {i \in 1..Len(sheet) : Cell(sheet[i], 0) # "" \/ Cell(sheet[i], 1) # ""}

\* C16: a row is skipped only when it lacks both id and title: of the rows
\* a successful fetch has read, every one with an id or a title becomes an
\* article, a row with an id and no title one with the title Untitled, a
\* row with a title and no id one with that title.
OnlyUnusableRowsSkipped ==
  \A p \in Procs :
    (pc[p] = "fetched" /\ apiOutcome[p] = "ok") =>
      /\ Len(sheetsArticles[p]) = Cardinality(usableRows)
      /\ \A i \in usableRows :
           Cell(sheet[i], 1) = "" =>
             \E j \in 1..Len(sheetsArticles[p]) :
               /\ sheetsArticles[p][j].id = parseInt(Cell(sheet[i], 0)).value
               /\ sheetsArticles[p][j].title = "Untitled"
      /\ \A i \in usableRows :
           Cell(sheet[i], 0) = "" =>
             \E j \in 1..Len(sheetsArticles[p]) :
               sheetsArticles[p][j].title = Cell(sheet[i], 1)

(***************************************************************************)
(* The bookmarks: POST /api/bookmarks and DELETE /api/bookmarks/:articleId *)
(* on MemStorage.                                                          *)
(***************************************************************************)
\* Bookmarks ever added.
MaxBookmarks == 4

\* Users and articles the bookmark requests name.
BookmarkUsers == {1, 2}

BookmarkArticles == {7, 12}

\* MemStorage.addBookmark
AddBookmark(insertBookmark) ==
  /\ EventLoopFree
  /\ currentBookmarkId <= MaxBookmarks
  /\ bookmarks' = Append(bookmarks,
        [id |-> currentBookmarkId, userId |-> insertBookmark.userId,
         articleId |-> insertBookmark.articleId, createdAt |-> now])
  /\ currentBookmarkId' = currentBookmarkId + 1
  /\ UNCHANGED <<articles, currentArticleId, googleSheets, lastSyncTime, now,
                 sheet, sheetsInit, pc, kind, sheetsArticles, apiOutcome,
                 syncOutcome, index, preSync, lastRead, label, normalized,
                 viewed, trending,
                 queryVars>>

\* MemStorage.removeBookmark: the first bookmark of the article, in the
\* order of insertion, is deleted.
RemoveBookmark(articleId) ==
  /\ EventLoopFree
  /\ \E i \in 1..Len(bookmarks) : bookmarks[i].articleId = articleId
  /\ LET first == CHOOSE i \in 1..Len(bookmarks) :
                    /\ bookmarks[i].articleId = articleId
                    /\ \A j \in 1..(i - 1) : bookmarks[j].articleId # articleId
     IN  bookmarks' = SubSeq(bookmarks, 1, first - 1)
                        \o SubSeq(bookmarks, first + 1, Len(bookmarks))
  /\ UNCHANGED <<articles, currentArticleId, googleSheets, lastSyncTime, now,
                 sheet, sheetsInit, pc, kind, sheetsArticles, apiOutcome,
                 syncOutcome, index, preSync, lastRead, label, normalized,
                 viewed, trending, currentBookmarkId,
                 queryVars>>

NextBookmarks ==
  \/ \E u \in BookmarkUsers, a \in BookmarkArticles :
        AddBookmark([userId |-> u, articleId |-> a])
  \/ \E a \in BookmarkArticles : RemoveBookmark(a)

SpecBookmarks == InitLocal /\ [][NextBookmarks]_vars

\* C17: after any sequence of add-bookmark and remove-bookmark requests at
\* most one bookmark exists per pairing of user and article.
OneBookmarkPerPairing ==
  \A i, j \in 1..Len(bookmarks) :
    (bookmarks[i].userId = bookmarks[j].userId
       /\ bookmarks[i].articleId = bookmarks[j].articleId) => i = j

\* The pass of the startup sync has run its callback on every article.
StartupPassComplete ==
  /\ pc[Startup] = "forEach"
  /\ index = Len(sheetsArticles[Startup])
  /\ Len(sheetsArticles[Startup]) = Len(acceptedRows)

\* The content cell of the accepted row i.
rawContent(i) == Cell(acceptedRows[i], 2)

\* The article made of the accepted row i is the one stored under its id:
\* no later row of the batch has the same id.
storedFromRow(i) ==
  /\ \A j \in (i + 1)..Len(acceptedRows) :
       sheetsArticles[Startup][j].id # sheetsArticles[Startup][i].id
  /\ MapHas(articles, sheetsArticles[Startup][i].id)

\* C18: content is synthesized only for the rows that need it: a row whose
\* raw content is not blank, is not boilerplate and does not equal the
\* content given to an earlier row of the batch is stored with its raw
\* content, and a row whose raw content does equal the content given to an
\* earlier row gets the synthesized one.
ContentKeptUnlessNeeded ==
  StartupPassComplete =>
    \A i \in 1..Len(acceptedRows) :
      LET assignedEarlier ==
            \E j \in 1..(i - 1) : sheetsArticles[Startup][j].content = rawContent(i)
      IN  /\ ( /\ trim(rawContent(i)) # ""
               /\ ~includes(rawContent(i), "Domestic indices extended gains")
               /\ ~includes(rawContent(i), "Technical analysts highlight")
               /\ ~assignedEarlier )
             => /\ sheetsArticles[Startup][i].content = rawContent(i)
                /\ storedFromRow(i) =>
                     MapGet(articles, sheetsArticles[Startup][i].id).content = rawContent(i)
          /\ (trim(rawContent(i)) # "" /\ assignedEarlier)
             => sheetsArticles[Startup][i].content =
                  generateUniqueArticleContent(
                    sheetsArticles[Startup][i].title, sheetsArticles[Startup][i].category,
                    sheetsArticles[Startup][i].stockSymbol, sheetsArticles[Startup][i].stockPrice,
                    sheetsArticles[Startup][i].priceChange, i - 1)

\* Two rows with the content "Content A": the article 7 of the first keeps
\* it, the article 2 of the second has another content.
FirstOccurrenceKept ==
  /\ StartupPassComplete
  /\ sheet = <<RowNifty1, RowNifty2>>
  /\ MapGet(articles, 7).content = "Content A"
  /\ MapGet(articles, 2).content # "Content A"

\* C19: every row whose content cell is empty or holds white space only
\* yields an article whose content is not empty, as fetchArticles maps it
\* and as the sync stores it.
BlankContentFilled ==
  /\ (pc[Startup] = "fetched" /\ apiOutcome[Startup] = "ok"
        /\ Len(sheetsArticles[Startup]) = Len(acceptedRows)) =>
       \A i \in 1..Len(acceptedRows) :
         trim(rawContent(i)) = "" => trim(sheetsArticles[Startup][i].content) # ""
  /\ StartupPassComplete =>
       \A i \in 1..Len(acceptedRows) :
         (trim(rawContent(i)) = "" /\ storedFromRow(i))
           => trim(MapGet(articles, sheetsArticles[Startup][i].id).content) # ""

\* A row with an empty content cell and a row with a blank one have been
\* mapped.
BlankRowsMapped ==
  /\ pc[Startup] = "fetched"
  /\ apiOutcome[Startup] = "ok"
  /\ sheet = <<RowEmptyContent, RowBlankContent>>
  /\ Len(sheetsArticles[Startup]) = 2

\* C20: the lookup ignores case and surrounding white space and an exact
\* match of an alias wins: a label that, lower-cased and trimmed, equals an
\* alias of the table maps to the category of that alias ("Most Active" to
\* movers; "GLOBAL", "Global " and " global" to the category of "global").
ExactAliasWins ==
  normalized # pending =>
    /\ \A k \in 1..Len(categoryMap) :
         trim(toLowerCase(label)) = categoryMap[k][1] => normalized = categoryMap[k][2]
    /\ label = "Most Active" => normalized = "movers"
    /\ label \in {"GLOBAL", "Global ", " global"} => normalized = normalize("global")

\* The label "Most Active" has been normalized to movers.
MostActiveNormalized == label = "Most Active" /\ normalized = "movers"

(***************************************************************************)
(* getArticles: what it lists.                                             *)
(***************************************************************************)
\* sortByDate of getArticles, and the sort of its filtered branch:
\* Array.prototype.sort by createdAt, latest first.  The sort is stable.
sortByDate(array) ==
  LET rank == [i \in 1..Len(array) |->
                Cardinality({j \in 1..Len(array) :
                   \/ array[j].createdAt > array[i].createdAt
                   \/ array[j].createdAt = array[i].createdAt /\ j < i})]
  IN  [k \in 1..Len(array) |-> array[CHOOSE i \in 1..Len(array) : rank[i] = k - 1]]

\* The categories getArticles lists first, in its order.
listedFirst == <<"nifty", "breakout", "ipo", "sme ipo", "warrant">>

\* getArticles without its last group, the articles of every other category.
getArticlesOfListedFirst(map, category) ==
  IF Truthy(category) /\ category # "all" /\ category # "trending"
  THEN sortByDate(SelectSeq(map, LAMBDA article : article.category = category))
  ELSE IF category = "trending"
  THEN getTrendingArticles(map)
  ELSE LET of(c) == sortByDate(SelectSeq(map, LAMBDA a : a.category = c))
       IN  of("nifty") \o of("breakout") \o of("ipo") \o of("sme ipo") \o of("warrant")

\* MemStorage.getArticles, past its sync: the array it returns for a store.
\* category is null when the argument is left out.
getArticles(map, category) ==
  LET allArticles == map
  IN  IF Truthy(category) /\ category # "all" /\ category # "trending"
      THEN sortByDate(SelectSeq(allArticles,
                        LAMBDA article : article.category = category))
      ELSE IF category = "trending"
      THEN getTrendingArticles(map)
      ELSE LET of(c) == SelectSeq(allArticles, LAMBDA a : a.category = c)
               otherArticles ==
                 SelectSeq(allArticles,
                   LAMBDA a : \A k \in 1..Len(listedFirst) : a.category # listedFirst[k])
           IN  sortByDate(of("nifty")) \o sortByDate(of("breakout"))
                 \o sortByDate(of("ipo")) \o sortByDate(of("sme ipo"))
                 \o sortByDate(of("warrant")) \o sortByDate(otherArticles)

\* The category arguments of the calls: left out, "all", the empty string of
\* GET /api/articles?category=, categories the store holds and one it does
\* not.
ListCategories == {null, "all", "", "nifty", "warrant", "others", "education", "trending"}

\* getArticles(category) of a store that needs no sync.
GetArticlesOf(category) ==
  /\ EventLoopFree
  /\ ~(googleSheets # null
        /\ (now - lastSyncTime > syncInterval \/ Len(articles) = 0))
  /\ listing' = [listed |-> TRUE, category |-> category,
                 list |-> getArticles(articles, category), store |-> articles]
  /\ lastRead' = ReadOf
  /\ UNCHANGED <<articles, currentArticleId, googleSheets, lastSyncTime, now,
                 sheet, sheetsInit, pc, kind, sheetsArticles, apiOutcome,
                 syncOutcome, index, preSync, label, normalized, viewed,
                 trending, bookmarks, currentBookmarkId, selected, users,
                 dbArticles, dbListing>>

NextListing ==
  \/ InitializeGoogleSheets(FALSE)
  \/ StartupTimer
  \/ AddTestArticle
  \/ \E category \in ListCategories : GetArticlesOf(category)
  \/ Tick

SpecListing == InitLocal /\ [][NextListing]_vars

\* How many times an article stands in a list.
TimesListed(list, article) == Cardinality({k \in 1..Len(list) : list[k] = article})

\* The list holds every article of the store exactly once.
ListsAll(list, store) ==
  /\ Len(list) = Len(store)
  /\ \A i \in 1..Len(store) : TimesListed(list, store[i]) = 1

\* The list holds exactly the articles of the store of the category, once
\* each.
ListsCategory(list, store, category) ==
  /\ \A k \in 1..Len(list) :
       /\ list[k].category = category
       /\ \E i \in 1..Len(store) : store[i] = list[k]
  /\ \A i \in 1..Len(store) :
       store[i].category = category => TimesListed(list, store[i]) = 1

\* C21 (amended): getArticles with the category left out, empty or "all"
\* returns every stored article exactly once; with any other category except
\* "trending" it returns exactly the stored articles of that category.
ListsAllOrCategory ==
  listing.listed =>
    IF listing.category \in {null, "", "all"}
    THEN ListsAll(listing.list, listing.store)
    ELSE listing.category # "trending" =>
           ListsCategory(listing.list, listing.store, listing.category)

\* C21 as stated: the empty category is any other category, and the list is
\* of the articles whose category is the empty string.
ListsAllOnlyIfOmittedOrAll ==
  listing.listed =>
    IF listing.category \in {null, "all"}
    THEN ListsAll(listing.list, listing.store)
    ELSE listing.category # "trending" =>
           ListsCategory(listing.list, listing.store, listing.category)

\* getArticles("") has listed a store that holds the sample articles, and
\* getArticles("warrant") would list some of them and not all.
EmptyCategoryListed ==
  /\ listing.listed
  /\ listing.category = ""
  /\ Len(listing.store) >= 29
  /\ Len(listing.list) = Len(listing.store)
  /\ Len(getArticles(listing.store, "warrant")) \in 1..(Len(listing.store) - 1)

\* The article as one more view leaves it: viewCount one higher (a missing
\* viewCount counts as 0), every other field as it was.
WithOneMoreView(article) ==
  ("viewCount" :> ViewCountOf(article) + 1) @@ article

\* C22: incrementViewCount on an id that is not in the store is a no-op (no
\* article is created, no viewCount changes); on a stored id it raises that
\* article's viewCount by exactly 1 and leaves every other article, and the
\* next id, unchanged.
ViewTouchesOneArticle ==
  [][\A id \in ViewIds :
       TrackView(id) =>
         /\ currentArticleId' = currentArticleId
         /\ Len(articles') = Len(articles)
         /\ \A i \in 1..Len(articles) :
              articles'[i] = IF articles[i].id = id
                             THEN WithOneMoreView(articles[i])
                             ELSE articles[i]
         /\ ~MapHas(articles, id) => articles' = articles]_vars

\* A stored article has been viewed once and counts one view, no other
\* article counts any, and the id 99 that views can also name is not stored.
OneViewCounted ==
  /\ MapHas(articles, 7)
  /\ viewed[7] = 1
  /\ ViewCountOf(MapGet(articles, 7)) = 1
  /\ ~MapHas(articles, 99)
  /\ \A i \in 1..Len(articles) :
       articles[i].id # 7 => ViewCountOf(articles[i]) = 0

(***************************************************************************)
(* getArticleImage called on its own.                                      *)
(***************************************************************************)
MaxSelects == 2

\* The articles getArticleImage is called with: two titles, two contents, a
\* category with a pool of its own and one without, and two stock prices,
\* a field the selection does not read.
ImageArticles ==
  {[id |-> 7, title |-> t, content |-> c, category |-> g, stockSymbol |-> "TCS",
    stockPrice |-> p] :
     t \in {"Quarterly update", "Nifty up"}, c \in {"Content A", "Content B"},
     g \in {"warrant", "others"}, p \in {null, "Rs 10"}}

\* A call of getArticleImage
SelectImage(article) ==
  /\ Len(selected) < MaxSelects
  /\ selected' = Append(selected, [article |-> article, url |-> getArticleImage(article)])
  /\ UNCHANGED <<articles, currentArticleId, googleSheets, lastSyncTime, now,
                 sheet, sheetsInit, pc, kind, sheetsArticles, apiOutcome,
                 syncOutcome, index, preSync, lastRead, label, normalized,
                 viewed, trending, bookmarks, currentBookmarkId, listing,
                 users, dbArticles, dbListing>>

NextImage == \E article \in ImageArticles : SelectImage(article)

SpecImage == InitLocal /\ [][NextImage]_vars

\* The two articles agree on the fields the claim names.
SameImageInput(a, b) ==
  /\ a.title = b.title
  /\ a.content = b.content
  /\ a.category = b.category
  /\ a.stockSymbol = b.stockSymbol
  /\ a.id = b.id

\* C23: two calls of getArticleImage with identical title, content,
\* category, stockSymbol and id return the identical URL, whatever else the
\* two articles hold and whichever call came first.
SameInputSameImage ==
  \A i, j \in 1..Len(selected) :
    SameImageInput(selected[i].article, selected[j].article)
      => selected[i].url = selected[j].url

\* Two calls have been made with articles that agree on the five fields and
\* differ in the stock price, and two with articles that differ in content
\* alone and were given different URLs.
SelectedTwice ==
  /\ Len(selected) = 2
  /\ SameImageInput(selected[1].article, selected[2].article)
  /\ selected[1].article # selected[2].article
  /\ \E a, b \in ImageArticles :
       /\ a.title = b.title /\ a.category = b.category /\ a.stockPrice = b.stockPrice
       /\ a.content # b.content
       /\ getArticleImage(a) # getArticleImage(b)

\* C24: a row whose category cell is empty or absent is stored with the
\* category others.
EmptyCategoryStoredAsOthers ==
  StartupPassComplete =>
    \A i \in 1..Len(acceptedRows) :
      (Cell(acceptedRows[i], 3) = "" /\ storedFromRow(i))
        => MapGet(articles, sheetsArticles[Startup][i].id).category = "others"

\* C25: no two articles made of one batch share an id, so after the pass
\* the store holds one article for every accepted row.
OneArticlePerAcceptedRow ==
  StartupPassComplete =>
    /\ \A i, j \in 1..Len(acceptedRows) :
         sheetsArticles[Startup][i].id = sheetsArticles[Startup][j].id => i = j
    /\ Len(articles) = Len(acceptedRows)

\* C26: for every article a sync has stored, imageUrl is what getArticleImage
\* returns for the article as it is stored, content synthesized for an
\* empty, boilerplate or duplicate cell included.
ImageOfStoredContent ==
  StartupPassComplete =>
    \A i \in 1..Len(acceptedRows) :
      storedFromRow(i) =>
        LET stored == MapGet(articles, sheetsArticles[Startup][i].id)
        IN  stored.imageUrl = getArticleImage(stored)

(***************************************************************************)
(* The server without credentials on which POST /api/articles/test has     *)
(* been served up to MaxEarlyCreates times before the timer of the         *)
(* constructor fires.                                                      *)
(***************************************************************************)
MaxEarlyCreates == 30

\* The store and the counter after n calls of createArticle on the store of
\* the constructor.
afterCreates(n) ==
  [articles |-> [i \in 1..n |-> createdArticle(testArticles[1], i, StartTime)],
   currentArticleId |-> n + 1]

InitEarlyCreates ==
  /\ ConstructedAside
  /\ \E n \in 0..MaxEarlyCreates :
       /\ articles = afterCreates(n).articles
       /\ currentArticleId = afterCreates(n).currentArticleId
  /\ sheet = <<>>
  /\ label = ""

NextEarlyCreates ==
  \/ InitializeGoogleSheets(FALSE)
  \/ StartupTimer
  \/ AddTestArticle
  \/ Tick

SpecEarlyCreates == InitEarlyCreates /\ [][NextEarlyCreates]_vars

\* C27: in every reachable state the next-id counter is greater than every
\* stored id, so that createArticle never takes the id of a stored article.
CounterAboveStoredIds ==
  \A i \in 1..Len(articles) : articles[i].id < currentArticleId

\* The part of a trending list after its first 15 articles.
diverseContentOf(list) == SubSeq(list, 16, Len(list))

\* The group getTrendingArticles counts an article of the remainder in: its
\* category if that is one with two places, "others" if not.
bucketOf(article) ==
  IF \E k \in 1..Len(trendingCategories) : article.category = trendingCategories[k]
  THEN article.category
  ELSE "others"

\* C28: the part of the trending result after the first 15 articles holds at
\* most 2 articles of each of nifty, breakout, ipo, research_report and
\* movers and at most 5 of all other categories together, the articles of
\* each group in view-count and recency order; no article stands twice in
\* the result, which so holds at most 30 articles.
TrendingTailWithinQuotas ==
  trending.listed =>
    LET list == trending.list
        tail == diverseContentOf(list)
    IN  /\ \A k \in 1..Len(trendingCategories) :
             Cardinality({i \in 1..Len(tail) :
                            tail[i].category = trendingCategories[k]}) <= 2
        /\ Cardinality({i \in 1..Len(tail) : bucketOf(tail[i]) = "others"}) <= 5
        /\ \A i, j \in 1..Len(tail) :
             (i < j /\ bucketOf(tail[i]) = bucketOf(tail[j]))
               => compareByViews(tail[i], tail[j]) <= 0
        /\ \A i, j \in 1..Len(list) : list[i].id = list[j].id => i = j
        /\ Len(list) <= 30

\* getTrendingArticles has listed a store of 30 articles and left some out:
\* its list holds two breakout articles after the first 15, a third one is
\* stored and not listed, and as many as five of other categories.
TrendingTailFilled ==
  /\ trending.listed
  /\ Len(trending.store) = 30
  /\ Len(trending.list) < 30
  /\ LET tail == diverseContentOf(trending.list)
     IN  /\ Cardinality({i \in 1..Len(tail) : tail[i].category = "breakout"}) = 2
         /\ \E i \in 1..Len(trending.store) :
              /\ trending.store[i].category = "breakout"
              /\ \A k \in 1..Len(trending.list) : trending.list[k].id # trending.store[i].id
         /\ Cardinality({i \in 1..Len(tail) : bucketOf(tail[i]) = "others"}) = 5

\* MemStorage.isBookmarked
isBookmarked(map, articleId) ==
  \E i \in 1..Len(map) : map[i].articleId = articleId

\* C29: after removeBookmark(articleId) the article is not bookmarked,
\* whatever bookmarks were added before.
RemovedIsNotBookmarked ==
  [][\A a \in BookmarkArticles :
       RemoveBookmark(a) => ~isBookmarked(bookmarks', a)]_vars

(***************************************************************************)
(* DatabaseStorage: the users and the articles tables, the subscription    *)
(* and the listing of the articles for a user.                             *)
(***************************************************************************)
\* Rows in the articles table.
MaxDbArticles == 2

\* Rows in the users table.
MaxDbUsers == 1

\* A timestamp column without a value, and a date argument left out.
NoDate == 0

\* A userId argument left out (or 0): !userId holds.
NoUser == 0

\* The categories of the articles inserted.
DbCategories == {"nifty", "warrant"}

\* The category arguments of DatabaseStorage.getArticles.
DbListCategories == {undefined, "all", "nifty", "warrant", "trending"}

\* The expiry dates a subscription is given: none, or one that passes with
\* the next tick of the clock.
ExpiryDates == {NoDate, StartTime + TickMs \div 2}

\* The variables DatabaseStorage leaves alone.
memVars ==
  <<articles, currentArticleId, googleSheets, lastSyncTime, sheet, sheetsInit,
    pc, kind, sheetsArticles, apiOutcome, syncOutcome, index, preSync, lastRead,
    label, normalized, viewed, trending, bookmarks, currentBookmarkId, listing,
    selected>>

\* db.select().from(users).where(eq(users.id, userId)): the rows found.
usersWhereId(table, userId) == SelectSeq(table, LAMBDA user : user.id = userId)

\* DatabaseStorage.updateSubscription: the users table after the update (a
\* key whose value is undefined is left out of the SET clause).
updateSubscription(table, userId, isSubscribed, expiryDate) ==
  [i \in 1..Len(table) |->
     IF table[i].id = userId
     THEN [table[i] EXCEPT !.isSubscribed = isSubscribed,
                           !.subscriptionExpiry =
                              IF expiryDate = NoDate THEN @ ELSE expiryDate]
     ELSE table[i]]

\* The subscription of the user has an expiry date and new Date() is past it.
subscriptionExpired(user, date) ==
  user.subscriptionExpiry # NoDate /\ date > user.subscriptionExpiry

\* DatabaseStorage.isUserSubscribed: the value returned.
isUserSubscribed(table, userId, date) ==
  LET found == usersWhereId(table, userId)
  IN  IF found = <<>> THEN FALSE
      ELSE IF ~found[1].isSubscribed THEN FALSE
      ELSE IF subscriptionExpired(found[1], date) THEN FALSE
      ELSE TRUE

\* DatabaseStorage.isUserSubscribed: the users table it leaves.
usersAfterIsUserSubscribed(table, userId, date) ==
  LET found == usersWhereId(table, userId)
  IN  IF found # <<>> /\ found[1].isSubscribed /\ subscriptionExpired(found[1], date)
      THEN updateSubscription(table, userId, FALSE, NoDate)
      ELSE table

\* ORDER BY created_at DESC: the orders the database can return the rows
\* in (rows of one timestamp in any order).
orderByCreatedAtDesc(rows) ==
  LET n == Len(rows)
      orders == {f \in [1..n -> 1..n] :
                   /\ \A i, j \in 1..n : f[i] = f[j] => i = j
                   /\ \A i \in 1..(n - 1) :
                        rows[f[i]].createdAt >= rows[f[i + 1]].createdAt}
  IN  {[i \in 1..n |-> rows[f[i]]] : f \in orders}

\* LIMIT count
limit(rows, count) == SubSeq(rows, 1, IF Len(rows) < count THEN Len(rows) ELSE count)

\* DatabaseStorage.getTrendingArticles: the lists it can return.
dbGetTrendingArticles(table) ==
  {limit(rows, 20) : rows \in orderByCreatedAtDesc(table)}

\* DatabaseStorage.getArticles: the lists it can return.
dbGetArticles(table, userTable, category, userId, date) ==
  IF category = "trending"
  THEN dbGetTrendingArticles(table)
  ELSE LET matching == IF Truthy(category) /\ category # "all"
                       THEN SelectSeq(table, LAMBDA a : a.category = category)
                       ELSE table
       IN  IF userId = NoUser \/ ~isUserSubscribed(userTable, userId, date)
           THEN {SelectSeq(allArticles, LAMBDA a : ~a.isPremium) :
                   allArticles \in orderByCreatedAtDesc(matching)}
           ELSE orderByCreatedAtDesc(matching)

\* DatabaseStorage.createUser
DbCreateUser ==
  /\ Len(users) < MaxDbUsers
  /\ users' = Append(users, [id |-> Len(users) + 1, isSubscribed |-> FALSE,
                             subscriptionExpiry |-> NoDate])
  /\ UNCHANGED <<memVars, now, dbArticles, dbListing>>

\* DatabaseStorage.updateSubscription
DbUpdateSubscription(userId, isSubscribed, expiryDate) ==
  /\ usersWhereId(users, userId) # <<>>
  /\ users' = updateSubscription(users, userId, isSubscribed, expiryDate)
  /\ UNCHANGED <<memVars, now, dbArticles, dbListing>>

\* DatabaseStorage.createArticle
DbCreateArticle(category) ==
  /\ Len(dbArticles) < MaxDbArticles
  /\ LET isPremium == category = "warrant" \/ category = "breakout"
     IN  dbArticles' = Append(dbArticles,
            [id |-> Len(dbArticles) + 1, category |-> category,
             isPremium |-> isPremium, createdAt |-> now])
  /\ UNCHANGED <<memVars, now, users, dbListing>>

\* DatabaseStorage.getArticles
DbGetArticles(category, userId) ==
  /\ \E list \in dbGetArticles(dbArticles, users, category, userId, now) :
       dbListing' = [listed |-> TRUE, list |-> list, category |-> category,
                     userId |-> userId, caller |-> usersWhereId(users, userId),
                     date |-> now]
  /\ users' = IF category # "trending" /\ userId # NoUser
              THEN usersAfterIsUserSubscribed(users, userId, now)
              ELSE users
  /\ UNCHANGED <<memVars, now, dbArticles>>

NextDatabase ==
  \/ DbCreateUser
  \/ \E u \in DbUsers, b \in BOOLEAN, e \in ExpiryDates : DbUpdateSubscription(u, b, e)
  \/ \E c \in DbCategories : DbCreateArticle(c)
  \/ \E c \in DbListCategories, u \in DbUsers \cup {NoUser} : DbGetArticles(c, u)
  \/ Tick

SpecDatabase == InitLocal /\ [][NextDatabase]_vars

\* The call was made without a userId, or for a user who was not subscribed
\* or whose subscription had expired.
CallerNotSubscribed(call) ==
  \/ call.userId = NoUser
  \/ \A i \in 1..Len(call.caller) :
       \/ ~call.caller[i].isSubscribed
       \/ /\ call.caller[i].subscriptionExpiry # NoDate
          /\ call.date > call.caller[i].subscriptionExpiry

\* C30: DatabaseStorage.getArticles returns no premium article to a caller
\* without a userId, or whose user is not subscribed or whose subscription
\* has expired, whatever the category argument.
NoPremiumUnlessSubscribed ==
  (dbListing.listed /\ CallerNotSubscribed(dbListing)) =>
    \A i \in 1..Len(dbListing.list) : ~dbListing.list[i].isPremium

====
